---- MODULE Spec2Model ----
(***************************************************************************)
(* KlineMonitor: the rate-limited market-data client, its kline sync, the  *)
(* alert dedup gate and the tick-driven orchestrator, as state machines.   *)
(* Each subsystem has its own specification over the shared variables:     *)
(*   SpecRate  - concurrent callers of BinanceClient._check_rate_limit     *)
(*   SpecCall  - BinanceClient._rate_limited_api_call (retry / backoff)    *)
(*   SpecSync  - BinanceClient.sync_klines against the kline store          *)
(*   SpecWindow, SpecPattern - AlertService.reminder and its dedup gate     *)
(*   SpecGate - reminder over detections of both kinds of dedup            *)
(*   SpecProgressive, SpecTick - sync_klines_task, the scheduler's tick     *)
(*   SpecStarve - the same tick with failing symbols ahead in the list      *)
(*   SpecSchedule - the tick fired at every minute of the day              *)
(*   SpecPause - the tick with pause_scheduler and resume_scheduler        *)
(*   SpecDetect, SpecMatch - MonitorService volume, rise, pattern checks    *)
(*   SpecOverride - the pattern check with per-symbol configuration rows   *)
(*   SpecShutdown - the tick with the worker's signal handling              *)
(*   SpecAbort - the tick with an exception raised inside it                *)
(*   SpecResolve - the three checks with per-symbol configuration rows     *)
(*   SpecSpan - the pattern check on candles more than one period apart    *)
(*   SpecFault - sync_klines with a database that fails during the write   *)
(*   SpecRace - check coroutines calling reminder on one event loop        *)
(*   SpecCrowd - hundreds of callers of _rate_limited_api_call at once     *)
(*   SpecLive - the rate limiter and the fetch loop under fair scheduling  *)
(* Time is counted in tenths of a second (the finest unit the code uses:   *)
(* the 0.1 s added to the rate-limit wait and the 0.1 s request delay).    *)
(***************************************************************************)
EXTENDS Integers, Sequences, FiniteSets, TLC

VARIABLES
    clock,            \* wall clock, tenths of a second since midnight of day 0
    request_count,    \* BinanceClient._request_count
    current_minute,   \* BinanceClient._current_minute
    lock_holder,      \* owner of BinanceClient._rate_limit_lock, or NoCaller
    lock_waiters,     \* FIFO of callers waiting in asyncio.Lock.acquire
    direct,           \* callers that call _check_rate_limit on its own
    pc,               \* position of every caller coroutine
    sleep_left,       \* time left of the asyncio.sleep a caller is suspended in
    attempt,          \* loop variable of _rate_limited_api_call
    api_calls,        \* history: api_func invocations of the caller's current call
    acquires,         \* history: counter increments of the caller's current call
    backoffs,         \* history: backoff delays slept in the caller's current call
    outcome,          \* how the caller's last _rate_limited_api_call ended
    last_error,       \* last_exception of the caller's current call
    calls_left,       \* calls the caller may still start (bounds the model)
    acq_minute,       \* history: absolute minute of the latest counter increment
    acq_count,        \* history: counter increments made within acq_minute
    sleep_from,       \* history: absolute minute in which the lock holder went to sleep
    last_acq,         \* history: when the latest increment was made, after a sleep or a
                      \* wait for the lock or neither
    utcnow,           \* datetime.utcnow(), seconds
    store,            \* the rows of table price_klines
    last_sync_time,   \* BinanceClient._last_sync_time
    sync_pc,          \* position of every coroutine that calls sync_klines
    sync_job,         \* locals of sync_klines: remaining, start_ts, end_ts, all_klines
    sync_result,      \* history: how the sync_klines call that ended last ended
    syncs_left,       \* sync_klines calls that may still start (bounds the model)
    stats,            \* sync_stats_collector._current_stats
    alerts,           \* the rows of table alerts
    dedups,           \* the rows of table alert_dedups
    config,           \* the rows of table configs that the dedup gate reads
    last_reminder,    \* history: the latest call of AlertService.reminder
    reminders_left,   \* reminder calls that may still be made (bounds the model)
    dedup_always_on,  \* history: "3_dedup_enabled" has been true all along
    reminding,        \* the check coroutines that are about to call, or are in, reminder
    crowd,            \* callers of _rate_limited_api_call counted, not named
    kline_pairs,      \* history: the (symbol, interval) of which price_klines holds a candle
    active,           \* table symbols: the rows with is_active
    initial_synced,   \* table symbols: the rows with initial_synced
    exchange,         \* which (symbol, interval) syncs the exchange fails or leaves empty
    trigger,          \* minute of the day at which the next tick fires
    phase,            \* where the running tick is: idle, steady, init, detect
    tick,             \* locals of sync_klines_task
    steady_tasks,     \* results of the tick's sync_single_interval tasks
    init_tasks,       \* progress of the tick's sync_initial_symbol tasks
    monitor_tasks,    \* results of the tick's run_single_monitor_optimized tasks
    summary,          \* history: the batch summary the tick logged
    summaries,        \* history: number of batch summaries logged
    tick_no,          \* history: number of ticks started (bounds the model)
    worker,           \* the worker process: running, signalled (shutdown_event set), exited
    scheduler_running, \* core.scheduler.scheduler_running
    market,           \* the 1-minute candles the exchange answers with
    thresholds,       \* global_configs: the thresholds of the checks
    bullish,          \* opens of the stored bullish candles of one timeframe, newest first
    bullish_times,       \* open_time of each of them, minutes
    symbol_configs,   \* the rows of table symbol_configs
    last_check        \* history: the latest check of MonitorService

rateVars == <<request_count, current_minute, lock_holder, lock_waiters,
              acq_minute, acq_count, sleep_from, last_acq>>
callVars == <<direct, pc, sleep_left, attempt, api_calls, acquires, backoffs, outcome,
              last_error, calls_left>>
clientVars == <<clock, rateVars, callVars>>
storeVars == <<utcnow, store, last_sync_time, sync_pc, sync_job, sync_result, syncs_left>>
syncVars == <<storeVars, stats>>
alertVars == <<alerts, dedups, config, last_reminder, reminders_left, dedup_always_on>>
tickVars == <<active, initial_synced, exchange, trigger, phase, tick, steady_tasks,
              init_tasks, monitor_tasks, summary, summaries, tick_no, worker,
              scheduler_running>>
detectVars == <<market, thresholds, bullish, bullish_times, symbol_configs, last_check>>
vars == <<clientVars, syncVars, alertVars, tickVars, detectVars, reminding, crowd,
          kline_pairs>>

\* what the actions of one subsystem leave alone
outsideClient == <<syncVars, alertVars, tickVars, detectVars, reminding, crowd, kline_pairs>>
outsideSync == <<clientVars, alertVars, tickVars, detectVars, reminding, crowd, kline_pairs>>
outsideAlert == <<clientVars, syncVars, tickVars, detectVars, reminding, crowd, kline_pairs>>
outsideTick == <<clientVars, storeVars, alertVars, detectVars, reminding, crowd, kline_pairs>>
outsideDetect == <<clientVars, syncVars, tickVars, reminding, crowd, kline_pairs>>
outsideReminding == <<clientVars, syncVars, tickVars, detectVars, crowd, kline_pairs>>
outsideCrowd == <<callVars, syncVars, alertVars, tickVars, detectVars, reminding,
                  kline_pairs>>
outsideBackfill == <<clientVars, storeVars, alertVars, detectVars, reminding, crowd>>

----------------------------------------------------------------------------
(* Bounds of the model *)

NumCallers == 2
MaxClock == 1900
TickTenths == 157
MaxChecks == 3
MaxCalls == 1
WarmGap == 2
NumSyncers == 2
MaxSyncs == 3
PageLimit == 2
InitialCandles == 3
SyncStep == 30
MaxNow == 120
IdleCandles == 8
MaxReminders == 3
NumSymbols == 12
NumActive == 3
MaxTicks == 4
QuietMinute == 6
ExtraCandles == 2
SpikeVolume == 52
BasePrice == 100
MaxBullish == 5
MaxSpan == 5
NumDetectors == 2
MaxBursts == 3

(* Program constants *)

SoftThreshold == 1150
HardCap == 1200
SecondsPerMinute == 60
MinutesPerHour == 60
HoursPerDay == 24
API_MAX_RETRIES == 5
API_RETRY_BASE_DELAY == 5
API_RATE_LIMIT_DELAY == 1
TenthsPerSecond == 10
SYNC_THROTTLE_SECONDS == 30
INCREMENTAL_SYNC_LIMIT == 5
MsPerSecond == 1000
TenthsPerMinute == 10
INITIAL_SYNC_BATCH_SIZE == 5
ShortWindow == 15
LongWindow == 480
Hundred == 100
PercentScale == 10
DEFAULT_1_VOLUME_PERCENT == 125
DEFAULT_2_RISE_PERCENT == 100
DEFAULT_3_PRICE_ERROR == 10
DEFAULT_3_MIDDLE_KLINE_CNT == 3

Callers == 1..NumCallers
ApiCallers == {1, 2}
NoCaller == 0
TenthsPerDay == TenthsPerSecond * SecondsPerMinute * MinutesPerHour * HoursPerDay

----------------------------------------------------------------------------
(* datetime.now() read off the clock *)

NowSecond(t) == (t \div TenthsPerSecond) % SecondsPerMinute
AbsMinute(t) == t \div (TenthsPerSecond * SecondsPerMinute)
NowMinute(t) == AbsMinute(t) % MinutesPerHour
NowHour(t) == (AbsMinute(t) \div MinutesPerHour) % HoursPerDay

\* current_minute = now.minute + now.hour * 60
MinuteKey(t) == NowMinute(t) + NowHour(t) * 60

\* seconds_to_wait = 60 - now.second + 0.1, in tenths
SecondsToWait(t) == (60 - NowSecond(t)) * TenthsPerSecond + 1

AtLimitOffByOne(count) == count > SoftThreshold

\* if self._request_count >= 1150
AtLimit(count) == count >= SoftThreshold

\* if current_minute != self._current_minute: reset; the count the limit test sees
RolledCount(t) == IF MinuteKey(t) # current_minute THEN 0 ELSE request_count

----------------------------------------------------------------------------
(* The error taxonomy of _rate_limited_api_call.  An exception is modelled *)
(* by the set of marker fragments that occur in str(e).lower().            *)

RetryableMarkers ==
    {"rate limit", "too many request", "429", "-1015", "ip banned",
     "request limit", "exceed", "timeout", "timed out", "connection error",
     "connection refused", "network is unreachable", "remote disconnected"}

NoError == {"<none>"}

\* the exceptions the exchange client raises in the model
Errors ==
    { {"timed out"},                       \* requests ReadTimeout
      {"429", "too many request"},         \* HTTP 429
      {"-1121", "invalid symbol"} }        \* APIError(code=-1121): Invalid symbol.

\* is_retryable = any(x in error_str for x in [...])
IsRetryable(err) == err \cap RetryableMarkers # {}

RECURSIVE Pow2(_)
Pow2(n) == IF n = 0 THEN 1 ELSE 2 * Pow2(n - 1)

BackoffDelayLinear(a) == API_RETRY_BASE_DELAY * (a + 1)

\* delay = self.API_RETRY_BASE_DELAY * (2 ** attempt)
BackoffDelay(a) == API_RETRY_BASE_DELAY * Pow2(a)

----------------------------------------------------------------------------
(* asyncio.Lock: release hands the lock to the first waiter, if any *)

KeepLock == UNCHANGED <<lock_holder, lock_waiters>>

ReleaseToNobody == lock_holder' = NoCaller /\ lock_waiters' = lock_waiters

\* __aexit__ of the lock: release(), which wakes the first waiter
Release ==
    IF lock_waiters = <<>>
    THEN lock_holder' = NoCaller /\ lock_waiters' = lock_waiters
    ELSE lock_holder' = Head(lock_waiters) /\ lock_waiters' = Tail(lock_waiters)

\* self._request_count += 1, with the history of increments per wall-clock minute
Count(c, newCount, waited, foundAt) ==
    /\ request_count' = newCount
    /\ acq_count' = IF AbsMinute(clock) = acq_minute THEN acq_count + 1 ELSE 1
    /\ acq_minute' = AbsMinute(clock)
    /\ last_acq' = [minute |-> AbsMinute(clock), waited |-> waited, found |-> foundAt,
                    queued |-> pc[c] = "lockwait"]

\* history: the increments of the caller's current _rate_limited_api_call, which
\* had made acq0 of them and now makes n more
Acquired(c, acq0, n) ==
    acquires' = [acquires EXCEPT ![c] = IF c \in direct THEN acq0 ELSE acq0 + n]

\* Where the caller continues once _check_rate_limit has returned: a direct
\* caller is done, _rate_limited_api_call goes on to asyncio.sleep(0.1).
Returned(c) ==
    IF c \in direct
    THEN pc' = [pc EXCEPT ![c] = "idle"] /\ sleep_left' = [sleep_left EXCEPT ![c] = 0]
    ELSE /\ pc' = [pc EXCEPT ![c] = "delay"]
         /\ sleep_left' = [sleep_left EXCEPT ![c] = API_RATE_LIMIT_DELAY]

\* The body of _check_rate_limit from the acquisition of the lock to the next
\* suspension point: the whole body, or the part up to the sleep.
CriticalSection(c, acq0) ==
    /\ current_minute' = MinuteKey(clock)
    /\ IF AtLimit(RolledCount(clock))
       THEN /\ request_count' = RolledCount(clock)
            /\ pc' = [pc EXCEPT ![c] = "rate_sleep"]
            /\ sleep_left' = [sleep_left EXCEPT ![c] = SecondsToWait(clock)]
            /\ lock_holder' = c
            /\ lock_waiters' = lock_waiters
            /\ sleep_from' = AbsMinute(clock)
            /\ Acquired(c, acq0, 0)
            /\ UNCHANGED <<acq_minute, acq_count, last_acq>>
       ELSE /\ Count(c, RolledCount(clock) + 1, FALSE, AbsMinute(clock))
            /\ Acquired(c, acq0, 1)
            /\ Returned(c)
            /\ Release
            /\ sleep_from' = -1

\* await self._check_rate_limit(): async with self._rate_limit_lock
EnterCheck(c, acq0) ==
    IF lock_holder = NoCaller /\ lock_waiters = <<>>
    THEN CriticalSection(c, acq0)
    ELSE /\ lock_waiters' = Append(lock_waiters, c)
         /\ pc' = [pc EXCEPT ![c] = "lockwait"]
         /\ Acquired(c, acq0, 0)
         /\ UNCHANGED <<request_count, current_minute, lock_holder, acq_minute,
                        acq_count, sleep_from, last_acq, sleep_left>>

----------------------------------------------------------------------------
(* Actions of the rate limiter *)

\* a coroutine calls _check_rate_limit
CheckRateLimit(c) ==
    /\ c \in direct
    /\ pc[c] = "idle"
    /\ calls_left[c] > 0
    /\ calls_left' = [calls_left EXCEPT ![c] = @ - 1]
    /\ EnterCheck(c, acquires[c])
    /\ UNCHANGED <<clock, direct, attempt, api_calls, backoffs, outcome, last_error>>

\* a waiter is handed the lock and runs the body
LockGranted(c) ==
    /\ pc[c] = "lockwait"
    /\ lock_holder = c
    /\ CriticalSection(c, acquires[c])
    /\ UNCHANGED <<clock, direct, attempt, api_calls, backoffs, outcome,
                   last_error, calls_left>>

\* the sleep to the next minute ends: reset, count, release
RateWake(c) ==
    /\ pc[c] = "rate_sleep"
    /\ sleep_left[c] = 0
    /\ current_minute' = MinuteKey(clock)
    /\ Count(c, 0 + 1, TRUE, sleep_from)
    /\ Acquired(c, acquires[c], 1)
    /\ Returned(c)
    /\ Release
    /\ sleep_from' = -1
    /\ UNCHANGED <<clock, direct, attempt, api_calls, backoffs,
                   outcome, last_error, calls_left>>

\* the time left of the pending sleeps to the next minute
Timers == {sleep_left[c] : c \in {x \in Callers : pc[x] = "rate_sleep" /\ sleep_left[x] > 0}}

Elapse(left, d) == IF left > d THEN left - d ELSE 0

\* time passes: to the end of a rate-limit sleep or by one quantum (every other
\* sleep ends at the first quantum after its delay), or by a day of idleness
Tick ==
    /\ \E d \in Timers \cup {TickTenths} :
          /\ (clock % TenthsPerDay) + d <= MaxClock
          /\ clock' = clock + d
          /\ sleep_left' = [c \in Callers |-> Elapse(sleep_left[c], d)]
    /\ UNCHANGED <<rateVars, direct, pc, attempt, api_calls, acquires, backoffs,
                   outcome, last_error, calls_left>>

IdleDay ==
    /\ clock < TenthsPerDay
    /\ \A c \in Callers : pc[c] = "idle"
    /\ clock' = clock + TenthsPerDay
    /\ UNCHANGED <<rateVars, callVars>>

----------------------------------------------------------------------------
(* Many callers of _rate_limited_api_call at once (sync_klines_task runs up *)
(* to SYNC_CONCURRENCY syncs), counted instead of named: `fresh` have left  *)
(* _check_rate_limit and are in asyncio.sleep(API_RATE_LIMIT_DELAY),        *)
(* `ready` have slept and issue their request when their thread runs.       *)

\* bursts: the bursts so far, which bounds the model
NoCrowd == [fresh |-> 0, ready |-> 0, issued_minute |-> -1, issued_count |-> 0, bursts |-> 0]

\* the sizes of the bursts tried
CrowdSizes == {HardCap - SoftThreshold + 1, SoftThreshold - (HardCap - SoftThreshold + 1),
               SoftThreshold}

\* k callers run _check_rate_limit one after the other at the same instant,
\* none of them finding the counter at the threshold
CrowdAcquire(k) ==
    /\ crowd.bursts < MaxBursts
    /\ lock_holder = NoCaller
    /\ RolledCount(clock) + k <= SoftThreshold
    /\ current_minute' = MinuteKey(clock)
    /\ request_count' = RolledCount(clock) + k
    /\ acq_count' = IF AbsMinute(clock) = acq_minute THEN acq_count + k ELSE k
    /\ acq_minute' = AbsMinute(clock)
    /\ crowd' = [crowd EXCEPT !.fresh = @ + k, !.bursts = @ + 1]
    /\ UNCHANGED <<clock, lock_holder, lock_waiters, sleep_from, last_acq>>

\* a caller finds the counter at the threshold, sleeps to the next minute with
\* the lock, resets the counter and counts itself
CrowdWait ==
    /\ crowd.bursts < MaxBursts
    /\ lock_holder = NoCaller
    /\ AtLimit(RolledCount(clock))
    /\ clock + SecondsToWait(clock) <= MaxClock
    /\ clock' = clock + SecondsToWait(clock)
    /\ current_minute' = MinuteKey(clock')
    /\ request_count' = 0 + 1
    /\ acq_count' = 1
    /\ acq_minute' = AbsMinute(clock')
    /\ crowd' = [crowd EXCEPT !.fresh = 1, !.ready = @ + crowd.fresh, !.bursts = @ + 1]
    /\ UNCHANGED <<lock_holder, lock_waiters, sleep_from, last_acq>>

\* await asyncio.sleep(self.API_RATE_LIMIT_DELAY) of the callers that have acquired
CrowdDelay ==
    /\ crowd.fresh > 0
    /\ clock + API_RATE_LIMIT_DELAY <= MaxClock
    /\ clock' = clock + API_RATE_LIMIT_DELAY
    /\ crowd' = [crowd EXCEPT !.fresh = 0, !.ready = @ + crowd.fresh]
    /\ UNCHANGED rateVars

\* await asyncio.to_thread(api_func, **kwargs): n requests go out, with the
\* history of the requests issued per wall-clock minute
Issued(n) ==
    [crowd EXCEPT !.ready = @ - n,
                  !.issued_minute = AbsMinute(clock),
                  !.issued_count = IF AbsMinute(clock) = crowd.issued_minute
                                   THEN @ + n ELSE n]

CrowdIssue ==
    /\ crowd.ready > 0
    /\ crowd' = Issued(crowd.ready)
    /\ UNCHANGED <<clock, rateVars>>

\* nothing happens until the last tenth of a second of the minute
CrowdIdle ==
    LET minute == TenthsPerSecond * SecondsPerMinute
    IN  /\ crowd.fresh = 0
        /\ (clock % minute) < minute - API_RATE_LIMIT_DELAY
        /\ clock' = (clock - (clock % minute)) + (minute - API_RATE_LIMIT_DELAY)
        /\ clock' <= MaxClock
        /\ UNCHANGED <<rateVars, crowd>>

----------------------------------------------------------------------------
(* The rate limiter as constructed (warm = 0: _request_count = 0,           *)
(* _current_minute = -1), or after `warm` uncontended calls made within    *)
(* the first minute, which leave the counter and the window key as below.  *)

InitRateLimiter(warm) ==
    /\ request_count = warm
    /\ current_minute = IF warm = 0 THEN -1 ELSE MinuteKey(0)
    /\ lock_holder = NoCaller
    /\ lock_waiters = <<>>
    /\ acq_minute = IF warm = 0 THEN -1 ELSE AbsMinute(0)
    /\ acq_count = warm
    /\ sleep_from = -1
    /\ last_acq = [minute |-> IF warm = 0 THEN -1 ELSE AbsMinute(0), waited |-> FALSE,
                   found |-> IF warm = 0 THEN -1 ELSE AbsMinute(0), queued |-> FALSE]

WarmStarts == {0, SoftThreshold - WarmGap}

InitCallers ==
    /\ crowd = NoCrowd
    /\ pc = [c \in Callers |-> "idle"]
    /\ sleep_left = [c \in Callers |-> 0]
    /\ attempt = [c \in Callers |-> 0]
    /\ api_calls = [c \in Callers |-> 0]
    /\ acquires = [c \in Callers |-> 0]
    /\ backoffs = [c \in Callers |-> <<>>]
    /\ outcome = [c \in Callers |-> "none"]
    /\ last_error = [c \in Callers |-> NoError]

----------------------------------------------------------------------------
(* sync_klines: the kline store, the exchange and the syncing coroutines.  *)
(* Datetimes are seconds since the listing of the symbol, API timestamps   *)
(* are milliseconds.  A candle's price and volume fields are one value,    *)
(* "forming" while the candle is open and "closed" afterwards.             *)

Syncers == 1..NumSyncers
Series == {<<"BTCUSDT", "1m">>, <<"BTCUSDT", "15m">>}

\* Optional values: None, or a one-element set; Python's truth value of them
None == {}
Val(o) == CHOOSE v \in o : TRUE
Truthy(o) == o # None /\ o # {0}

Min(a, b) == IF a <= b THEN a ELSE b
Max(a, b) == IF a >= b THEN a ELSE b
CeilDiv(a, b) == -((-a) \div b)

\* int(x / y): truncation towards zero
IntTrunc(a, b) == IF a >= 0 THEN a \div b ELSE -((-a) \div b)

INTERVAL_TO_MINUTES(interval) ==
    IF interval = "1m" THEN 1 ELSE IF interval = "1h" THEN 60 ELSE 15
IntervalSeconds(interval) == INTERVAL_TO_MINUTES(interval) * SecondsPerMinute
IntervalMs(interval) == IntervalSeconds(interval) * MsPerSecond
IdleSeconds == IdleCandles * SecondsPerMinute

\* the i-th candle of the exchange as seen at time t: [open time, OHLCV ...]
RawKline(interval, i, t) ==
    [open_ms |-> i * IntervalMs(interval),
     ohlcv |-> IF (i + 1) * IntervalSeconds(interval) <= t THEN "closed" ELSE "forming"]

\* client.futures_klines(symbol, interval, limit, startTime, endTime) at time t:
\* the candles opened in [startTime, endTime], oldest first; the first `limit`
\* of them when startTime is given, the latest `limit` otherwise
FuturesKlines(interval, limit, startTime, endTime, t) ==
    LET newest == t \div IntervalSeconds(interval)
        lo0 == IF startTime = None THEN 0
               ELSE Max(0, CeilDiv(Val(startTime), IntervalMs(interval)))
        hi0 == IF endTime = None THEN newest
               ELSE Min(newest, Val(endTime) \div IntervalMs(interval))
        lo == IF startTime = None THEN Max(lo0, hi0 - limit + 1) ELSE lo0
        hi == IF startTime = None THEN hi0 ELSE Min(hi0, lo0 + limit - 1)
    IN  IF hi < lo THEN <<>>
        ELSE [k \in 1..(hi - lo + 1) |-> RawKline(interval, lo + k - 1, t)]

\* _parse_kline: "open_time": datetime.utcfromtimestamp(k[0] / 1000), ...
ParseKline(k) == [open_time |-> k.open_ms \div MsPerSecond, ohlcv |-> k.ohlcv]

\* int(start_time.replace(tzinfo=timezone.utc).timestamp() * 1000)
TimestampMs(t) == t * MsPerSecond

\* db.query(PriceKline).filter(symbol == ..., interval == ...)
SeriesRows(st, s) == {r \in st : r.symbol = s[1] /\ r.interval = s[2]}
OpenTimes(rows) == {r.open_time : r \in rows}
SetMax(S) == CHOOSE x \in S : \A y \in S : y <= x

\* the uniqueness constraint uix_price_kline on (symbol, interval, open_time)
KeyOf(r) == <<r.symbol, r.interval, r.open_time>>
UniqueKeys(st) == \A r1, r2 \in st : KeyOf(r1) = KeyOf(r2) => r1 = r2

\* what identifies a row apart from its price and volume fields
Identity(st) == {<<r.id, r.symbol, r.interval, r.open_time>> : r \in st}

\* limit and start_ts of sync_klines, from the latest stored candle of the series
SyncPlan(s, t) ==
    IF SeriesRows(store, s) = {}
    THEN [limit |-> InitialCandles, start_ts |-> None]
    ELSE LET start_time == SetMax(OpenTimes(SeriesRows(store, s))) + IntervalSeconds(s[2])
             periods_needed == IntTrunc(t - start_time, IntervalSeconds(s[2]))
         IN  IF periods_needed <= 0
             THEN [limit |-> 2, start_ts |-> None]
             ELSE IF periods_needed > INCREMENTAL_SYNC_LIMIT
                  THEN [limit |-> Min(periods_needed + 1, PageLimit),
                        start_ts |-> {TimestampMs(start_time)}]
                  ELSE [limit |-> periods_needed + 2, start_ts |-> None]

NoJob == [series |-> <<"", "">>, force |-> FALSE, now |-> 0, remaining |-> 0,
          start_ts |-> None, end_ts |-> None, all_klines |-> <<>>, seen |-> {}]

NoResult == [status |-> "none", error |-> "", inserted |-> 0, updated |-> 0,
             fetched |-> 0, covered |-> FALSE, overlapped |-> FALSE,
             rows_before |-> 0, rows_after |-> 0, identity_kept |-> TRUE,
             changed |-> FALSE, series |-> <<"", "">>, force |-> FALSE]

\* SyncStats.add_result through SyncStatsCollector.add_result
AddResult(st, success) ==
    IF ~st.open THEN st
    ELSE IF success THEN [st EXCEPT !.success_count = @ + 1]
         ELSE [st EXCEPT !.failed_count = @ + 1]

ExistingKlinesAtStart(c, s, open_times) ==
    {r \in sync_job[c].seen : r.open_time \in open_times}

\* existing_klines = db.query(PriceKline).filter(symbol, interval, open_time.in_(open_times))
ExistingKlines(c, s, open_times) ==
    {r \in SeriesRows(store, s) : r.open_time \in open_times}

\* existing_map = {k.open_time: k for k in existing_klines}
ExistingMap(existing_klines) ==
    [ot \in OpenTimes(existing_klines) |->
        CHOOSE r \in existing_klines : r.open_time = ot]

\* db.bulk_insert_mappings(PriceKline, to_insert): IntegrityError if a key is taken
UniqueViolation(st, s, to_insert) ==
    \/ \E k \in DOMAIN to_insert : to_insert[k].open_time \in OpenTimes(SeriesRows(st, s))
    \/ \E i, k \in DOMAIN to_insert : i < k /\ to_insert[i].open_time = to_insert[k].open_time

BulkInsert(st, s, to_insert) ==
    LET base == IF st = {} THEN 0 ELSE SetMax({r.id : r \in st})
    IN  st \cup {[id |-> base + k, symbol |-> s[1], interval |-> s[2],
                  open_time |-> to_insert[k].open_time, ohlcv |-> to_insert[k].ohlcv]
                 : k \in DOMAIN to_insert}

UpdatedRowRekeyed(r, k) == [r EXCEPT !.ohlcv = k.ohlcv, !.open_time = k.open_time + r.id]

\* one mapping of to_update: "id", "open", "high", "low", "close", "volume", ...
UpdatedRow(r, k) == [r EXCEPT !.ohlcv = k.ohlcv]

\* db.bulk_update_mappings(PriceKline, to_update): by primary key, in order
BulkUpdate(st, existing_map, to_update) ==
    LET Hits(r) == {k \in DOMAIN to_update : existing_map[to_update[k].open_time].id = r.id}
    IN  {IF Hits(r) = {} THEN r ELSE UpdatedRow(r, to_update[SetMax(Hits(r))]) : r \in st}

\* sync_klines from `if not all_klines` to its return or its except branch
Persist(c, all_klines) ==
    LET s == sync_job[c].series
        open_times == {all_klines[k].open_time : k \in DOMAIN all_klines}
        existing_map == ExistingMap(ExistingKlines(c, s, open_times))
        to_insert == SelectSeq(all_klines, LAMBDA k : k.open_time \notin DOMAIN existing_map)
        to_update == SelectSeq(all_klines, LAMBDA k : k.open_time \in DOMAIN existing_map)
        written == BulkUpdate(BulkInsert(store, s, to_insert), existing_map, to_update)
        stored == OpenTimes(SeriesRows(store, s))
        facts == [NoResult EXCEPT
                    !.fetched = Len(all_klines),
                    !.covered = open_times \subseteq stored,
                    !.overlapped = (open_times \cap stored) \ OpenTimes(sync_job[c].seen) # {},
                    !.rows_before = Cardinality(SeriesRows(store, s))]
    IN  /\ sync_pc' = [sync_pc EXCEPT ![c] = "idle"]
        /\ sync_job' = [sync_job EXCEPT ![c] = NoJob]
        /\ IF all_klines = <<>>
           THEN /\ sync_result' = [NoResult EXCEPT !.status = "empty"]
                /\ UNCHANGED <<store, stats>>
           ELSE IF UniqueViolation(store, s, to_insert)
           THEN /\ sync_result' =
                       [facts EXCEPT !.status = "failed", !.error = "UNIQUE constraint failed",
                                     !.rows_after = facts.rows_before]
                /\ stats' = AddResult(stats, FALSE)
                /\ UNCHANGED store
           ELSE /\ store' = written
                /\ stats' = AddResult(stats, TRUE)
                /\ sync_result' =
                       [facts EXCEPT !.status = "ok",
                                     !.inserted = Len(to_insert),
                                     !.updated = Len(to_update),
                                     !.rows_after = Cardinality(SeriesRows(written, s)),
                                     !.identity_kept = Identity(store) \subseteq Identity(written),
                                     !.changed = written # store]

\* a coroutine calls sync_klines(symbol, interval, force): throttled, or planned
\* up to the first await of the API
ThrottledDespiteForce(s, force) ==
    /\ last_sync_time[s] # None
    /\ utcnow - Val(last_sync_time[s]) < SYNC_THROTTLE_SECONDS

\* if not force and cache_key in self._last_sync_time: elapsed < SYNC_THROTTLE_SECONDS
Throttled(s, force) ==
    /\ ~force
    /\ last_sync_time[s] # None
    /\ utcnow - Val(last_sync_time[s]) < SYNC_THROTTLE_SECONDS

SyncKlines(c, s, force) ==
    /\ sync_pc[c] = "idle"
    /\ syncs_left > 0
    /\ syncs_left' = syncs_left - 1
    /\ IF Throttled(s, force)
       THEN /\ sync_result' = [NoResult EXCEPT !.status = "throttled", !.series = s,
                                               !.force = force]
            /\ UNCHANGED <<last_sync_time, sync_pc, sync_job>>
       ELSE /\ last_sync_time' = [last_sync_time EXCEPT ![s] = {utcnow}]
            /\ sync_pc' = [sync_pc EXCEPT ![c] = "fetching"]
            /\ sync_job' = [sync_job EXCEPT ![c] =
                   [series |-> s, force |-> force, now |-> utcnow,
                    remaining |-> SyncPlan(s, utcnow).limit,
                    start_ts |-> SyncPlan(s, utcnow).start_ts, end_ts |-> None,
                    all_klines |-> <<>>, seen |-> SeriesRows(store, s)]]
            /\ UNCHANGED sync_result
    /\ UNCHANGED <<utcnow, store, stats>>

\* the exchange's answers to one page request: the candles asked for, or nothing
PageAnswers(j) ==
    { FuturesKlines(j.series[2], Min(j.remaining, PageLimit),
                    IF Truthy(j.start_ts) /\ ~Truthy(j.end_ts) THEN j.start_ts ELSE None,
                    IF Truthy(j.end_ts) THEN j.end_ts ELSE None,
                    utcnow),
      <<>> }

\* klines_raw = await self._rate_limited_api_call(...) returns: the next page is
\* requested, or the loop ends and the candles are written
PageReturns(c) ==
    /\ sync_pc[c] = "fetching"
    /\ \E klines_raw \in PageAnswers(sync_job[c]) :
          LET j == sync_job[c]
              all_klines == j.all_klines \o
                  [k \in 1..Len(klines_raw) |-> ParseKline(klines_raw[k])]
              remaining == j.remaining - Len(klines_raw)
          IN  IF klines_raw # <<>> /\ remaining > 0
              THEN /\ sync_job' = [sync_job EXCEPT ![c] =
                          [j EXCEPT !.all_klines = all_klines, !.remaining = remaining,
                                    !.end_ts = {klines_raw[1].open_ms - 1}]]
                   /\ UNCHANGED <<store, stats, sync_pc, sync_result>>
              ELSE Persist(c, all_klines)
    /\ UNCHANGED <<utcnow, last_sync_time, syncs_left>>

\* the API call raises: db.rollback(), a failure result, raise e
PageFails(c) ==
    /\ sync_pc[c] = "fetching"
    /\ sync_pc' = [sync_pc EXCEPT ![c] = "idle"]
    /\ sync_job' = [sync_job EXCEPT ![c] = NoJob]
    /\ sync_result' = [NoResult EXCEPT !.status = "failed", !.error = "api"]
    /\ stats' = AddResult(stats, FALSE)
    /\ UNCHANGED <<utcnow, store, last_sync_time, syncs_left>>

\* the statements of the write that may raise, and what the session has flushed
\* when each does: nothing, the inserts, the inserts and the updates
PersistStages == {"insert", "update", "commit"}
Flushed(c, all_klines, stage) ==
    LET s == sync_job[c].series
        open_times == {all_klines[k].open_time : k \in DOMAIN all_klines}
        existing_map == ExistingMap(ExistingKlines(c, s, open_times))
        to_insert == SelectSeq(all_klines, LAMBDA k : k.open_time \notin DOMAIN existing_map)
        to_update == SelectSeq(all_klines, LAMBDA k : k.open_time \in DOMAIN existing_map)
    IN  IF stage = "insert" THEN store
        ELSE IF stage = "update" THEN BulkInsert(store, s, to_insert)
        ELSE BulkUpdate(BulkInsert(store, s, to_insert), existing_map, to_update)

CommitFlushed(st, flushed) == flushed

\* except Exception: db.rollback()
Rollback(st, flushed) == st

\* a statement of the write raises (the database is locked or gone):
\* db.rollback(), a failure result, raise e
PersistFails(c) ==
    /\ sync_pc[c] = "fetching"
    /\ \E klines_raw \in PageAnswers(sync_job[c]), stage \in PersistStages :
          LET j == sync_job[c]
              all_klines == j.all_klines \o
                  [k \in 1..Len(klines_raw) |-> ParseKline(klines_raw[k])]
              remaining == j.remaining - Len(klines_raw)
          IN  /\ ~(klines_raw # <<>> /\ remaining > 0)
              /\ all_klines # <<>>
              /\ store' = Rollback(store, Flushed(c, all_klines, stage))
              /\ sync_result' =
                     [NoResult EXCEPT !.status = "failed", !.error = "db",
                                      !.fetched = Len(all_klines), !.series = j.series,
                                      !.rows_before = Cardinality(SeriesRows(store, j.series)),
                                      !.rows_after = Cardinality(SeriesRows(store', j.series))]
    /\ sync_pc' = [sync_pc EXCEPT ![c] = "idle"]
    /\ sync_job' = [sync_job EXCEPT ![c] = NoJob]
    /\ stats' = AddResult(stats, FALSE)
    /\ UNCHANGED <<utcnow, last_sync_time, syncs_left>>

\* datetime.utcnow() advances
AdvanceTime ==
    /\ (utcnow % IdleSeconds) + SyncStep <= MaxNow
    /\ utcnow' = utcnow + SyncStep
    /\ UNCHANGED <<store, last_sync_time, sync_pc, sync_job, sync_result, syncs_left, stats>>

\* nothing is synced for some minutes
IdleGap ==
    /\ utcnow < IdleSeconds
    /\ \A c \in Syncers : sync_pc[c] = "idle"
    /\ utcnow' = utcnow + IdleSeconds
    /\ UNCHANGED <<store, last_sync_time, sync_pc, sync_job, sync_result, syncs_left, stats>>

InitStore ==
    /\ utcnow = 0
    /\ store = {}
    /\ last_sync_time = [s \in Series |-> None]
    /\ sync_pc = [c \in Syncers |-> "idle"]
    /\ sync_job = [c \in Syncers |-> NoJob]
    /\ sync_result = NoResult


\* the store at rest, for the specifications of the other subsystems
InitSyncQuiet ==
    /\ InitStore
    /\ syncs_left = 0
    /\ stats = [open |-> FALSE, success_count |-> 0, failed_count |-> 0]

----------------------------------------------------------------------------
(* AlertService.reminder: the dedup gate, the Alert table and the          *)
(* AlertDedup table.  reminder has no suspension point between its dedup   *)
(* check and its dedup write (save_alert is awaited but never suspends),   *)
(* so one call is one step.                                                *)

AlertSymbols == {"BTCUSDT", "ETHUSDT"}

\* dedup_key = f"{timeframe}_{time_d:%Y%m%d%H%M}_{time_e:%Y%m%d%H%M}"
PatternKeys == {"1h_202401020000_202401010000", "1h_202401020100_202401010000"}

\* what a detection passes to reminder: alert_type and dedup_key ("" for None)
WindowDetections == {[alert_type |-> 1, dedup_key |-> ""], [alert_type |-> 2, dedup_key |-> ""]}
PatternDetections == {[alert_type |-> 3, dedup_key |-> k] : k \in PatternKeys}

\* the values of config row "3_dedup_enabled"; None when the row is missing
DedupConfigs == {None, {"True"}, {"false"}}

\* the values of config rows "1_reminder_interval" and "2_reminder_interval",
\* in tenths of a minute
IntervalConfigs == {0, TenthsPerMinute, TenthsPerMinute + TenthsPerMinute \div 2}

\* str.lower() on the values above
Lower(s) == IF s = "True" THEN "true" ELSE s

\* config_service.get_config_value(db, "3_dedup_enabled", str(DEFAULT_3_DEDUP_ENABLED).lower())
DedupEnabledValue == IF config.dedup_enabled = None THEN Lower("True") ELSE Val(config.dedup_enabled)

DedupNeverEnabled == FALSE

\* dedup_enabled.lower() != "true": return False
DedupEnabled == Lower(DedupEnabledValue) = "true"

\* int(config_service.get_config_float(db, "1_reminder_interval", ...))
IntervalMinutes(alert_type) ==
    IntTrunc(IF alert_type = 1 THEN config.interval_1 ELSE config.interval_2, TenthsPerMinute)

DedupRows(symbol, alert_type) ==
    {d \in dedups : d.symbol = symbol /\ d.alert_type = alert_type}

\* _check_dedup_type3
CheckDedupType3(symbol, dedup_key) ==
    /\ DedupEnabled
    /\ \E d \in DedupRows(symbol, 3) : d.dedup_key = dedup_key

WithinSeconds(last_alert_time, now, interval_minutes) ==
    last_alert_time >= now - interval_minutes

\* dedup.last_alert_time >= datetime.utcnow() - timedelta(minutes=interval_minutes)
WithinInterval(last_alert_time, now, interval_minutes) ==
    last_alert_time >= now - interval_minutes * SecondsPerMinute

\* _check_dedup_time_based
CheckDedupTimeBased(symbol, alert_type) ==
    /\ alert_type \in {1, 2}
    /\ IntervalMinutes(alert_type) > 0
    /\ DedupRows(symbol, alert_type) # {}
    /\ WithinInterval(SetMax({d.last_alert_time : d \in DedupRows(symbol, alert_type)}),
                      utcnow, IntervalMinutes(alert_type))

NextId(rows) == IF rows = {} THEN 1 ELSE SetMax({r.id : r \in rows}) + 1

SkipSave(symbol, det) == alerts

\* save_alert
SaveAlert(symbol, det) ==
    alerts \cup {[id |-> NextId(alerts), symbol |-> symbol, alert_type |-> det.alert_type,
                  data |-> det.dedup_key, created_at |-> utcnow]}

RefreshSymbolRecords(symbol, det) ==
    {IF d.symbol = symbol THEN [d EXCEPT !.last_alert_time = utcnow] ELSE d : d \in dedups}
        \cup {[id |-> NextId(dedups), symbol |-> symbol, alert_type |-> det.alert_type,
                dedup_key |-> det.dedup_key, last_alert_time |-> utcnow]}

\* _update_dedup_record
UpdateDedupRecord(symbol, det) ==
    IF det.alert_type = 3 /\ det.dedup_key # ""
    THEN dedups \cup {[id |-> NextId(dedups), symbol |-> symbol, alert_type |-> 3,
                       dedup_key |-> det.dedup_key, last_alert_time |-> utcnow]}
    ELSE IF det.alert_type \in {1, 2}
    THEN IF DedupRows(symbol, det.alert_type) # {}
         THEN LET first == CHOOSE d \in DedupRows(symbol, det.alert_type) :
                               \A e \in DedupRows(symbol, det.alert_type) : d.id <= e.id
              IN  (dedups \ {first}) \cup {[first EXCEPT !.last_alert_time = utcnow]}
         ELSE dedups \cup {[id |-> NextId(dedups), symbol |-> symbol,
                            alert_type |-> det.alert_type,
                            dedup_key |-> IF det.alert_type = 1 THEN "type1_interval"
                                          ELSE "type2_interval",
                            last_alert_time |-> utcnow]}
    ELSE dedups

\* history: the Alert rows of one (symbol, type[, key]) group
AlertsOf(rows, symbol, det) ==
    {a \in rows : a.symbol = symbol /\ a.alert_type = det.alert_type /\ a.data = det.dedup_key}

NoReminder == [result |-> "none", symbol |-> "", det |-> [alert_type |-> 0, dedup_key |-> ""],
               at |-> 0, had_prior |-> FALSE, elapsed |-> 0, added |-> 0,
               key_known |-> FALSE, dedup_enabled |-> FALSE, last_fired |-> -1,
               posts |-> 0]

\* _format_wechat_message: alert_service does not import now_beijing, so the
\* f-string of the message raises NameError
FormatWechatMessage(symbol, det) == "NameError"

\* if send_wechat: format the message and post it to the webhook
Notify(symbol, det, send_wechat) ==
    IF ~send_wechat THEN [posts |-> 0, raised |-> FALSE]
    ELSE IF FormatWechatMessage(symbol, det) = "NameError" THEN [posts |-> 0, raised |-> TRUE]
    ELSE [posts |-> 1, raised |-> FALSE]

\* reminder(symbol, alert_type, data, send_wechat, dedup_key)
Reminder(symbol, det, send_wechat) ==
    LET suppressed ==
            \/ det.alert_type \in {1, 2} /\ CheckDedupTimeBased(symbol, det.alert_type)
            \/ det.alert_type = 3 /\ det.dedup_key # "" /\ CheckDedupType3(symbol, det.dedup_key)
        prior == AlertsOf(alerts, symbol, det)
        facts == [NoReminder EXCEPT
                    !.symbol = symbol, !.det = det, !.at = utcnow,
                    !.had_prior = prior # {},
                    !.elapsed = IF prior = {} THEN 0
                                ELSE utcnow - SetMax({a.created_at : a \in prior}),
                    !.key_known = \E d \in DedupRows(symbol, det.alert_type) :
                                      d.dedup_key = det.dedup_key,
                    !.dedup_enabled = Lower(DedupEnabledValue) = "true"]
        fired(ds) == {d.last_alert_time : d \in {x \in ds : x.symbol = symbol
                                                      /\ x.alert_type = det.alert_type}}
    IN  /\ reminders_left > 0
        /\ reminders_left' = reminders_left - 1
        /\ IF suppressed
           THEN /\ last_reminder' = [facts EXCEPT !.result = "suppressed",
                                        !.last_fired = SetMax(fired(dedups))]
                /\ UNCHANGED <<alerts, dedups>>
           ELSE /\ alerts' = SaveAlert(symbol, det)
                /\ dedups' = UpdateDedupRecord(symbol, det)
                /\ last_reminder' =
                      [facts EXCEPT !.result = IF Notify(symbol, det, send_wechat).raised
                                               THEN "raised" ELSE "returned",
                                    !.added = Cardinality(SaveAlert(symbol, det))
                                              - Cardinality(alerts),
                                    !.posts = Notify(symbol, det, send_wechat).posts,
                                    !.last_fired = SetMax(fired(UpdateDedupRecord(symbol, det)))]
        /\ UNCHANGED <<config, dedup_always_on>>

\* the operator changes config row "3_dedup_enabled"
SetDedupConfig(v) ==
    /\ config.dedup_enabled # v
    /\ config' = [config EXCEPT !.dedup_enabled = v]
    /\ dedup_always_on' = (dedup_always_on /\ (v = None \/ Lower(Val(v)) = "true"))
    /\ UNCHANGED <<alerts, dedups, last_reminder, reminders_left>>

SaveAlertAwaitsDriver == TRUE

\* whether `await self.save_alert(...)` hands control to the event loop:
\* save_alert has no await in its body, so awaiting it runs it through
SaveAlertSuspends == FALSE

Detectors == 1..NumDetectors
NotReminding == [pc |-> "idle", symbol |-> "", det |-> [alert_type |-> 0, dedup_key |-> ""],
                 raced |-> FALSE, result |-> "none"]

\* a check coroutine finds its condition met and is about to call reminder,
\* while other check coroutines of the same gather may be at the same point
Detect(d, symbol, det) ==
    /\ reminding[d].pc = "idle"
    /\ reminders_left > Cardinality({e \in Detectors : reminding[e].pc # "idle"})
    /\ reminding' = [reminding EXCEPT ![d] =
           [pc |-> "detected", symbol |-> symbol, det |-> det, result |-> "none",
            raced |-> \E e \in Detectors \ {d} :
                         /\ reminding[e].pc # "idle"
                         /\ reminding[e].symbol = symbol
                         /\ reminding[e].det = det]]
    /\ UNCHANGED alertVars

\* the event loop runs the coroutine's reminder(symbol, alert_type, data,
\* dedup_key=...) up to its next suspension point
ReminderStep(d) ==
    LET r == reminding[d]
        suppressed ==
            \/ r.det.alert_type \in {1, 2} /\ CheckDedupTimeBased(r.symbol, r.det.alert_type)
            \/ r.det.alert_type = 3 /\ r.det.dedup_key # ""
                   /\ CheckDedupType3(r.symbol, r.det.dedup_key)
    IN  \/ /\ r.pc = "detected"
           /\ ~suppressed /\ SaveAlertSuspends
           /\ reminding' = [reminding EXCEPT ![d].pc = "saving"]
           /\ UNCHANGED alertVars
        \/ /\ r.pc = "detected"
           /\ suppressed \/ ~SaveAlertSuspends
           /\ Reminder(r.symbol, r.det, TRUE)
           /\ reminding' = [reminding EXCEPT ![d].pc = "idle",
                                ![d].result = IF suppressed THEN "suppressed" ELSE "fired"]
        \/ /\ r.pc = "saving"
           /\ alerts' = SaveAlert(r.symbol, r.det)
           /\ dedups' = UpdateDedupRecord(r.symbol, r.det)
           /\ reminders_left' = reminders_left - 1
           /\ reminding' = [reminding EXCEPT ![d].pc = "idle", ![d].result = "fired"]
           /\ UNCHANGED <<config, dedup_always_on, last_reminder>>

InitAlertTables ==
    /\ reminding = [d \in Detectors |-> NotReminding]
    /\ alerts = {}
    /\ dedups = {}
    /\ last_reminder = NoReminder
    /\ dedup_always_on = TRUE

\* the alert service at rest, for the specifications of the other subsystems
InitAlertQuiet ==
    /\ InitAlertTables
    /\ config = [interval_1 |-> 0, interval_2 |-> 0, dedup_enabled |-> None]
    /\ reminders_left = 0

----------------------------------------------------------------------------
(* MonitorService: the volume and the rise check on the 1-minute candles.  *)
(* Volumes and prices are whole numbers; a percentage is counted in units  *)
(* of 1/PercentScale percent, so that 12.5 % is 125.                       *)

\* the candles get_klines(symbol, "1m") answers, oldest first, the last one
\* forming: all alike but for one candle, the market.pos-th from the end
Candle(open, close, volume) == [open |-> open, close |-> close, volume |-> volume]
Klines1m ==
    [i \in 1..market.n |->
        IF i = market.n + 1 - market.pos
        THEN Candle(market.open, market.close, market.base + market.spike)
        ELSE Candle(BasePrice, BasePrice, market.base)]

\* seq[-n:]
LastN(seq, n) == SubSeq(seq, Max(1, Len(seq) - n + 1), Len(seq))

RECURSIVE SumVolume(_)
\* sum(k["volume"] for k in ...)
SumVolume(seq) ==
    IF seq = <<>> THEN 0
    ELSE IF Len(seq) = 1 THEN seq[1].volume
    ELSE SumVolume(SubSeq(seq, 1, Len(seq) \div 2))
         + SumVolume(SubSeq(seq, Len(seq) \div 2 + 1, Len(seq)))

KeepForming(klines_1m) == klines_1m

\* klines_1m[:-1] if len(klines_1m) > 1 else []
ClosedKlines(klines_1m) ==
    IF Len(klines_1m) > 1 THEN SubSeq(klines_1m, 1, Len(klines_1m) - 1) ELSE <<>>

\* check_volume_with_klines up to the call of reminder
VolumeCheck(klines_1m, percent) ==
    IF Len(klines_1m) <= 1
    THEN [volume_15m |-> 0, volume_8h |-> 0, trigger |-> FALSE]
    ELSE LET closed_klines == ClosedKlines(klines_1m)
             volume_15m == IF Len(closed_klines) >= ShortWindow
                           THEN SumVolume(LastN(closed_klines, ShortWindow)) ELSE 0
             volume_8h == IF Len(closed_klines) >= 1
                          THEN SumVolume(LastN(closed_klines, LongWindow)) ELSE 0
         IN  [volume_15m |-> volume_15m, volume_8h |-> volume_8h,
              trigger |-> volume_15m * Hundred * PercentScale >= volume_8h * percent]

OpenUnchecked(first_open) == TRUE

\* if first_open == 0: return False
OpenUsable(first_open) == first_open # 0

\* check_rise_with_klines up to the call of reminder; failed stands for the
\* ZeroDivisionError of the division by first_open
RiseCheck(klines_1m, threshold) ==
    IF Len(klines_1m) <= 2 \/ Len(ClosedKlines(klines_1m)) < ShortWindow
    THEN [trigger |-> FALSE, failed |-> FALSE]
    ELSE LET recent_15 == LastN(ClosedKlines(klines_1m), ShortWindow)
             first_open == recent_15[1].open
             last_close == recent_15[Len(recent_15)].close
         IN  IF ~OpenUsable(first_open) THEN [trigger |-> FALSE, failed |-> FALSE]
             ELSE IF first_open = 0 THEN [trigger |-> FALSE, failed |-> TRUE]
             ELSE [trigger |-> (last_close - first_open) * Hundred * PercentScale
                                   >= threshold * first_open,
                   failed |-> FALSE]

\* percent: the threshold the volume or rise check was called with;
\* overrides: whether the check queried symbol_configs
NoCheck == [kind |-> "none", symbol |-> "", trigger |-> FALSE, failed |-> FALSE,
            sent |-> FALSE, matched |-> 0, percent |-> -1, overrides |-> FALSE,
            middle_count |-> -1, fakes |-> -1,
            used |-> [price_error |-> -1, middle_kline_cnt |-> -1, fake_kline_cnt |-> -1]]

RiseForVolume ==
    [thresholds EXCEPT !.volume_percent = thresholds.rise_percent]

\* _get_global_configs: the global values of the five thresholds
GetGlobalConfigs == thresholds

\* check_volume_with_klines(symbol, klines_1m, global_configs["volume_percent"])
CheckVolumeWithKlines(symbol) ==
    LET check == VolumeCheck(Klines1m, GetGlobalConfigs.volume_percent)
    IN  /\ IF check.trigger
           THEN Reminder(symbol, [alert_type |-> 1, dedup_key |-> ""], TRUE)
           ELSE UNCHANGED alertVars
        /\ last_check' = [NoCheck EXCEPT !.kind = "volume", !.symbol = symbol,
                             !.trigger = check.trigger, !.sent = check.trigger,
                             !.percent = GetGlobalConfigs.volume_percent]
        /\ UNCHANGED <<market, thresholds, bullish, bullish_times, symbol_configs>>

\* check_rise_with_klines(symbol, klines_1m, global_configs["rise_percent"])
CheckRiseWithKlines(symbol) ==
    LET check == RiseCheck(Klines1m, GetGlobalConfigs.rise_percent)
    IN  /\ IF check.trigger
           THEN Reminder(symbol, [alert_type |-> 2, dedup_key |-> ""], TRUE)
           ELSE UNCHANGED alertVars
        /\ last_check' = [NoCheck EXCEPT !.kind = "rise", !.symbol = symbol,
                             !.trigger = check.trigger, !.failed = check.failed,
                             !.sent = check.trigger,
                             !.percent = GetGlobalConfigs.rise_percent]
        /\ UNCHANGED <<market, thresholds, bullish, bullish_times, symbol_configs>>

\* the candle lengths, the place of the odd candle and the values tried
Lengths == {0, 1, 2, ShortWindow, ShortWindow + 1, ShortWindow + 2,
            LongWindow + 1, LongWindow + ExtraCandles}
Places == {1, 2, ShortWindow + 1, ShortWindow + 2, LongWindow + 1, LongWindow + 2}
Markets ==
    {[n |-> n, pos |-> p, base |-> b, spike |-> s, open |-> o, close |-> c] :
        n \in Lengths, p \in Places, b \in {0, 1}, s \in {0, SpikeVolume},
        o \in {0, BasePrice}, c \in {BasePrice, BasePrice + BasePrice \div 10, BasePrice + BasePrice \div 5}}
DefaultThresholds ==
    [volume_percent |-> DEFAULT_1_VOLUME_PERCENT, rise_percent |-> DEFAULT_2_RISE_PERCENT,
     price_error |-> DEFAULT_3_PRICE_ERROR, middle_kline_cnt |-> DEFAULT_3_MIDDLE_KLINE_CNT,
     fake_kline_cnt |-> 0]
Thresholds ==
    {[DefaultThresholds EXCEPT !.volume_percent = v] : v \in {0, DEFAULT_1_VOLUME_PERCENT}}

\* the dedup_key of the pair (D, E), E the i-th bullish candle before D
MatchKeys == <<"1h_202401050000_202401040000", "1h_202401050000_202401030000",
               "1h_202401050000_202401020000", "1h_202401050000_202401010000",
               "1h_202401050000_202312310000", "1h_202401050000_202312300000">>

\* abs(price_d - price_e) / min(price_d, price_e) * 100 <= price_error
ErrorWithin(price_d, price_e, price_error) ==
    (IF price_d >= price_e THEN price_d - price_e ELSE price_e - price_d)
        * Hundred * PercentScale <= price_error * Min(price_d, price_e)

\* len(middle_klines): the bullish candles between E and D with open < avg_price
MiddleCount(klines, i) ==
    Cardinality({j \in 2..i : 2 * klines[j] < klines[1] + klines[i + 1]})

SkippedUpTo(i, middle_kline_cnt) == i <= middle_kline_cnt

\* if i < middle_kline_cnt: continue
Skipped(i, middle_kline_cnt) == i < middle_kline_cnt

\* the timeframe of the stored bullish candles
Timeframe == "1h"

\* _get_symbol_config: .filter(symbol == ..., interval == ...).first()
GetSymbolConfig(symbol, interval) ==
    {c \in symbol_configs : c.symbol = symbol /\ c.interval = interval}

GlobalWhenFalsy(symbol, interval, global_price_error) ==
    LET rows == GetSymbolConfig(symbol, interval)
    IN  IF rows # {} /\ Truthy((CHOOSE c \in rows : TRUE).price_error)
        THEN Val((CHOOSE c \in rows : TRUE).price_error)
        ELSE global_price_error

\* _get_symbol_price_error: if config and config.price_error is not None
GetSymbolPriceError(symbol, interval, global_price_error) ==
    LET rows == GetSymbolConfig(symbol, interval)
    IN  IF rows # {} /\ (CHOOSE c \in rows : TRUE).price_error # None
        THEN Val((CHOOSE c \in rows : TRUE).price_error)
        ELSE global_price_error

\* _get_symbol_middle_kline_cnt
GetSymbolMiddleKlineCnt(symbol, interval, global_middle_kline_cnt) ==
    LET rows == GetSymbolConfig(symbol, interval)
    IN  IF rows # {} /\ (CHOOSE c \in rows : TRUE).middle_kline_cnt # None
        THEN Val((CHOOSE c \in rows : TRUE).middle_kline_cnt)
        ELSE global_middle_kline_cnt

\* _get_symbol_fake_kline_cnt
GetSymbolFakeKlineCnt(symbol, interval, global_fake_kline_cnt) ==
    LET rows == GetSymbolConfig(symbol, interval)
    IN  IF rows # {} /\ (CHOOSE c \in rows : TRUE).fake_kline_cnt # None
        THEN Val((CHOOSE c \in rows : TRUE).fake_kline_cnt)
        ELSE global_fake_kline_cnt

QuarterHours(time_d, time_e, timeframe) ==
    IntTrunc(time_d - time_e, INTERVAL_TO_MINUTES("15m"))

\* interval_count = int(diff_minutes / minutes_per_interval)
IntervalCount(time_d, time_e, timeframe) ==
    IntTrunc(time_d - time_e, INTERVAL_TO_MINUTES(timeframe))

\* open times of n candles one timeframe period apart, newest first
EveryPeriod(n) == [j \in 1..n |-> (MaxSpan + 1 - j) * INTERVAL_TO_MINUTES(Timeframe)]

\* the conditions of the loop body under which E, the i-th candle before D, is reported
Qualifies(klines, i, used) ==
    /\ ~Skipped(i, used.middle_kline_cnt)
    /\ ErrorWithin(klines[1], klines[i + 1], used.price_error)
    /\ MiddleCount(klines, i) <= used.fake_kline_cnt

RECURSIVE MatchPastFired(_, _, _)
MatchPastFired(klines, i, used) ==
    IF i > Len(klines) - 1 THEN 0
    ELSE IF Qualifies(klines, i, used) /\ ~\E d \in dedups : d.dedup_key = MatchKeys[i]
         THEN i
         ELSE MatchPastFired(klines, i + 1, used)

RECURSIVE MatchFrom(_, _, _)
\* for i, historical in enumerate(bullish_klines[1:], 1): the i of the first E
\* that qualifies, 0 when the loop runs out
MatchFrom(klines, i, used) ==
    IF i > Len(klines) - 1 THEN 0
    ELSE IF Skipped(i, used.middle_kline_cnt) THEN MatchFrom(klines, i + 1, used)
    ELSE IF /\ ErrorWithin(klines[1], klines[i + 1], used.price_error)
            /\ MiddleCount(klines, i) <= used.fake_kline_cnt
         THEN i
         ELSE MatchFrom(klines, i + 1, used)

\* check_open_price_match_with_db(symbol, timeframe, db, global_configs)
CheckOpenPriceMatchWithDb(symbol) ==
    LET used == [price_error |->
                     GetSymbolPriceError(symbol, Timeframe, GetGlobalConfigs.price_error),
                 middle_kline_cnt |->
                     GetSymbolMiddleKlineCnt(symbol, Timeframe,
                                             GetGlobalConfigs.middle_kline_cnt),
                 fake_kline_cnt |->
                     GetSymbolFakeKlineCnt(symbol, Timeframe,
                                           GetGlobalConfigs.fake_kline_cnt)]
        i == IF Len(bullish) < 2 THEN 0 ELSE MatchFrom(bullish, 1, used)
    IN  /\ IF i > 0
           THEN Reminder(symbol, [alert_type |-> 3, dedup_key |-> MatchKeys[i]], TRUE)
           ELSE UNCHANGED alertVars
        /\ last_check' = [NoCheck EXCEPT !.kind = "pattern", !.symbol = symbol,
                             !.sent = i > 0, !.matched = i, !.used = used,
                             !.overrides = TRUE,
                             !.middle_count =
                                 IF i > 0
                                 THEN IntervalCount(bullish_times[1], bullish_times[i + 1],
                                                    Timeframe)
                                 ELSE -1,
                             !.fakes = IF i > 0 THEN MiddleCount(bullish, i) ELSE -1]
        /\ UNCHANGED <<market, thresholds, bullish, bullish_times, symbol_configs>>

\* DELETE /symbol-configs/{symbol_name}/{interval}
DeleteSymbolConfig(symbol, interval) ==
    /\ GetSymbolConfig(symbol, interval) # {}
    /\ symbol_configs' = symbol_configs \ GetSymbolConfig(symbol, interval)
    /\ UNCHANGED <<market, thresholds, bullish, bullish_times, last_check, alertVars>>

\* the override rows tried: every combination of null and set fields for the
\* checked timeframe, a full override for another timeframe
OverrideRows(symbol, interval) ==
    {[symbol |-> symbol, interval |-> interval, price_error |-> pe,
      middle_kline_cnt |-> mid, fake_kline_cnt |-> fake] :
        pe \in IF interval = Timeframe THEN {None, {0}, {2 * DEFAULT_3_PRICE_ERROR}}
               ELSE {{2 * DEFAULT_3_PRICE_ERROR}},
        mid \in IF interval = Timeframe THEN {None, {1}} ELSE {{1}},
        fake \in IF interval = Timeframe THEN {None, {1}} ELSE {{1}}}
OverrideKeys == (AlertSymbols \X {Timeframe}) \cup {<<"BTCUSDT", "4h">>}
\* the tables tried: at most one row per (symbol, interval), as the unique index
\* ix_symbol_interval has it
OverrideChoices(k) == {{}} \cup {{r} : r \in OverrideRows(k[1], k[2])}
SymbolConfigTables ==
    {a \cup b \cup c : a \in OverrideChoices(<<"BTCUSDT", Timeframe>>),
                       b \in OverrideChoices(<<"ETHUSDT", Timeframe>>),
                       c \in OverrideChoices(<<"BTCUSDT", "4h">>)}
OverrideBullish ==
    {<<BasePrice, BasePrice + 2, BasePrice, BasePrice>>,
     <<BasePrice, BasePrice - 10, BasePrice + 1, BasePrice>>}

\* the markets, global values and tables tried when all three checks run with
\* rows in symbol_configs: a row of the checked symbol for the 1m candles the
\* volume and rise checks read
ResolveMarkets ==
    {[n |-> ShortWindow + 2, pos |-> 2, base |-> 1, spike |-> s, open |-> BasePrice,
      close |-> c] : s \in {0, SpikeVolume}, c \in {BasePrice, BasePrice + BasePrice \div 5}}
ResolveThresholds ==
    {[DefaultThresholds EXCEPT !.volume_percent = v, !.rise_percent = r] :
        v \in {DEFAULT_1_VOLUME_PERCENT, 2 * DEFAULT_1_VOLUME_PERCENT},
        r \in {DEFAULT_2_RISE_PERCENT, 2 * DEFAULT_2_RISE_PERCENT}}
ResolveKeys == {<<"BTCUSDT", Timeframe>>, <<"BTCUSDT", "1m">>}
ResolveTables ==
    {a \cup b : a \in OverrideChoices(<<"BTCUSDT", Timeframe>>),
                b \in OverrideChoices(<<"BTCUSDT", "1m">>)}

\* the bullish candles tried with candles that are not bullish between them:
\* their open times are any periods of the last MaxSpan, newest first
SpanBullish ==
    UNION {[1..n -> {BasePrice - 10, BasePrice, BasePrice + 2}] : n \in 2..(MaxBullish - 1)}
OpenTimeLists(n) ==
    {[j \in 1..n |-> periods[j] * INTERVAL_TO_MINUTES(Timeframe)] :
        periods \in {q \in [1..n -> 0..MaxSpan] : \A j \in 1..(n - 1) : q[j] > q[j + 1]}}

\* the stored bullish candles and the thresholds tried by the pattern check
OpenPrices == {BasePrice - 10, BasePrice, BasePrice + 1, BasePrice + 2}
BullishLists == UNION {[1..n -> OpenPrices] : n \in 0..MaxBullish}
PatternThresholds ==
    {[DefaultThresholds EXCEPT !.middle_kline_cnt = mid, !.fake_kline_cnt = fake] :
        mid \in {0, 1, DEFAULT_3_MIDDLE_KLINE_CNT}, fake \in {0, 1}}

InitDetectQuiet ==
    /\ market = [n |-> 0, pos |-> 1, base |-> 0, spike |-> 0, open |-> 0, close |-> 0]
    /\ thresholds = DefaultThresholds
    /\ bullish = <<>>
    /\ bullish_times = <<>>
    /\ symbol_configs = {}
    /\ last_check = NoCheck

----------------------------------------------------------------------------
(* sync_klines_task: one tick of the scheduler.  The scheduler runs one    *)
(* tick at a time (a tick that is due while one is running is skipped), a  *)
(* tick is followed here from the point where it found the scheduler       *)
(* running, and the task counts stay below the semaphores' limits.  What a *)
(* sync_klines call does for (symbol, interval) is the exchange's answer:  *)
(* it writes candles, raises, or gets no candles and returns 0.            *)

Symbols == 1..NumSymbols
all_intervals == <<"1m", "15m", "30m", "1h", "4h", "1d", "3d">>
Range(f) == {f[x] : x \in DOMAIN f}

GetIntervalsOnPeriod(t) ==
    LET minute == t % MinutesPerHour
        hour == (t \div MinutesPerHour) % HoursPerDay
    IN  <<"1m">>
        \o (IF minute % 15 = 0 THEN <<"15m">> ELSE <<>>)
        \o (IF minute % 30 = 0 THEN <<"30m">> ELSE <<>>)
        \o (IF minute = 0 THEN <<"1h">> ELSE <<>>)
        \o (IF minute = 0 /\ hour % 4 = 0 THEN <<"4h">> ELSE <<>>)
        \o (IF minute = 0 /\ hour = 0 THEN <<"1d">> ELSE <<>>)
        \o (IF minute = 0 /\ hour = 0 THEN <<"3d">> ELSE <<>>)

\* get_intervals_to_sync(trigger_time), trigger_time as minute of the day
GetIntervalsToSync(t) ==
    LET minute == t % MinutesPerHour
        hour == (t \div MinutesPerHour) % HoursPerDay
    IN  <<"1m">>
        \o (IF minute % 15 = 0 THEN <<"15m">> ELSE <<>>)
        \o (IF minute = 1 \/ minute = 31 THEN <<"30m">> ELSE <<>>)
        \o (IF minute = 2 THEN <<"1h">> ELSE <<>>)
        \o (IF minute = 3 /\ hour % 4 = 0 THEN <<"4h">> ELSE <<>>)
        \o (IF minute = 4 /\ hour = 0 THEN <<"1d">> ELSE <<>>)
        \o (IF minute = 5 /\ hour = 0 THEN <<"3d">> ELSE <<>>)

\* how binance_client.sync_klines(symbol, interval, force=True) ends
SyncOutcome(symbol, interval) ==
    IF symbol \in exchange.down \/ <<symbol, interval>> \in exchange.failing THEN "fail"
    ELSE IF <<symbol, interval>> \in exchange.silent THEN "empty"
    ELSE "ok"

\* the pairs with a candle after sync_klines: bulk_insert or bulk_update of a
\* non-empty all_klines; `if not all_klines: return 0` writes nothing
Stored(pairs, symbol, interval, ended) ==
    IF ended = "ok" THEN pairs \cup {<<symbol, interval>>} ELSE pairs

\* the result sync_klines records in the collector, if any
Recorded(st, ended) ==
    IF ended = "empty" THEN st ELSE AddResult(st, ended = "ok")

\* the candles of the symbols that start initialized: every interval has some
Backfilled(symbols) == symbols \X Range(all_intervals)

\* get_synced_and_unsynced_symbols
SyncedSymbols == {s \in active : s \in initial_synced}
UnsyncedSymbols == {s \in active : s \notin initial_synced}

WholeList(S, n) == S

\* unsynced_symbols[:INITIAL_SYNC_BATCH_SIZE], rows in the order of their ids
FirstN(S, n) == {s \in S : Cardinality({x \in S : x < s}) < n}

SingleResultEscapes(ended) == IF ended = "fail" THEN "escaped" ELSE "ok"

\* sync_single_interval: (symbol, interval, result, None) or (symbol, interval, 0, str(e))
SingleResult(ended) == IF ended = "fail" THEN "error" ELSE "ok"

NoTick == [synced_symbols |-> {}, unsynced_symbols |-> {}, to_initialize |-> {},
           intervals |-> <<>>]
NoTasks == [x \in {} |-> "running"]
NoInitTasks == [s \in {} |-> [pos |-> 0, success |-> TRUE]]
NoSummary == [success_count |-> -1, failed_count |-> -1]

\* run_monitor_task: if not is_scheduler_running(): return
MonitorRuns == scheduler_running

RequeriedSymbols(tk) ==
    {s \in active : s \in initial_synced
                        \/ (s \in DOMAIN init_tasks /\ init_tasks[s].success)}

\* run_monitor_task(synced_symbols): the list the tick read when it started
DetectionSymbols(tk) == tk.synced_symbols

\* from sync_stats_collector.finish_batch() to the end of sync_klines_task, or to
\* the gather of run_monitor_task
FinishBatch(st, tk) ==
    /\ stats' = [open |-> FALSE, success_count |-> 0, failed_count |-> 0]
    /\ summary' = [success_count |-> st.success_count, failed_count |-> st.failed_count]
    /\ summaries' = summaries + 1
    /\ IF tk.synced_symbols # {} /\ st.success_count > 0 /\ MonitorRuns
       THEN /\ phase' = "detect"
            /\ monitor_tasks' = [s \in DetectionSymbols(tk) |-> "running"]
       ELSE /\ phase' = "idle"
            /\ monitor_tasks' = NoTasks

\* from the dispatch of the initial syncs on
StartInitial(st, tk) ==
    IF tk.to_initialize # {}
    THEN /\ phase' = "init"
         /\ init_tasks' = [s \in tk.to_initialize |-> [pos |-> 0, success |-> TRUE]]
         /\ stats' = st
         /\ UNCHANGED <<initial_synced, summary, summaries, monitor_tasks>>
    ELSE /\ FinishBatch(st, tk)
         /\ UNCHANGED <<init_tasks, initial_synced>>

ReuseOpenBatch(st) ==
    IF st.open THEN st ELSE [open |-> TRUE, success_count |-> 0, failed_count |-> 0]

\* sync_stats_collector.start_batch(): a new SyncStats
StartBatch(st) == [open |-> TRUE, success_count |-> 0, failed_count |-> 0]

\* the scheduler fires sync_klines_task: up to the first gather that has tasks
TickStart ==
    /\ phase = "idle"
    /\ worker # "exited"
    /\ scheduler_running
    /\ tick_no < MaxTicks
    /\ tick_no' = tick_no + 1
    /\ trigger' = trigger + 1
    /\ LET tk == [synced_symbols |-> SyncedSymbols,
                  unsynced_symbols |-> UnsyncedSymbols,
                  to_initialize |-> FirstN(UnsyncedSymbols, INITIAL_SYNC_BATCH_SIZE),
                  intervals |-> GetIntervalsToSync(trigger)]
           started == StartBatch(stats)
       IN  /\ steady_tasks' = [x \in tk.synced_symbols \X Range(tk.intervals) |-> "running"]
           /\ IF tk.synced_symbols = {} /\ tk.unsynced_symbols = {}
              THEN /\ tick' = NoTick
                   /\ init_tasks' = NoInitTasks
                   /\ monitor_tasks' = NoTasks
                   /\ summary' = NoSummary
                   /\ UNCHANGED <<phase, stats, summaries, initial_synced>>
              ELSE /\ tick' = tk
                   /\ IF tk.synced_symbols # {}
                      THEN /\ phase' = "steady"
                           /\ stats' = started
                           /\ init_tasks' = NoInitTasks
                           /\ monitor_tasks' = NoTasks
                           /\ summary' = NoSummary
                           /\ UNCHANGED <<summaries, initial_synced>>
                      ELSE StartInitial(started, tk)
    /\ UNCHANGED <<active, exchange, worker,
                   scheduler_running>>

\* one sync_single_interval task runs to its return
SteadyTaskDone(symbol, interval) ==
    /\ phase = "steady"
    /\ <<symbol, interval>> \in DOMAIN steady_tasks
    /\ steady_tasks[<<symbol, interval>>] = "running"
    /\ LET ended == SyncOutcome(symbol, interval)
       IN  /\ stats' = Recorded(stats, ended)
           /\ steady_tasks' = [steady_tasks EXCEPT ![<<symbol, interval>>] = SingleResult(ended)]
           /\ kline_pairs' = Stored(kline_pairs, symbol, interval, ended)
    /\ UNCHANGED <<tick, phase, init_tasks, monitor_tasks, initial_synced, summary,
                   summaries, tick_no, trigger, active, exchange, worker,
                   scheduler_running>>

FirstCompleted(tasks) == \E x \in DOMAIN tasks : tasks[x] # "running"

\* gather(return_exceptions=True) returns once every task has finished
Gathered(tasks) == \A x \in DOMAIN tasks : tasks[x] # "running"

\* the first gather returns; the tick goes on to the initial syncs
SteadyGatherReturns ==
    /\ phase = "steady"
    /\ Gathered(steady_tasks)
    /\ StartInitial(stats, tick)
    /\ UNCHANGED <<tick, steady_tasks, tick_no, trigger, active, exchange, worker,
                   scheduler_running>>

\* sync_initial_symbol: the next interval of one symbol's backfill
InitSyncDone(symbol) ==
    /\ phase = "init"
    /\ symbol \in DOMAIN init_tasks
    /\ init_tasks[symbol].pos < Len(all_intervals)
    /\ LET interval == all_intervals[init_tasks[symbol].pos + 1]
           ended == SyncOutcome(symbol, interval)
       IN  /\ stats' = Recorded(stats, ended)
           /\ kline_pairs' = Stored(kline_pairs, symbol, interval, ended)
           /\ init_tasks' = [init_tasks EXCEPT
                  ![symbol] = [pos |-> @.pos + 1,
                               success |-> @.success /\ ended # "fail"]]
    /\ UNCHANGED <<tick, phase, steady_tasks, monitor_tasks, initial_synced, summary,
                   summaries, tick_no, trigger, active, exchange, worker,
                   scheduler_running>>

EveryTask(tasks) == DOMAIN tasks

\* the symbols whose sync_initial_symbol returned True
Initialized(tasks) == {s \in DOMAIN tasks : tasks[s].success}

\* the second gather returns: mark_symbol_synced, then the rest of the tick
InitGatherReturns ==
    /\ phase = "init"
    /\ \A s \in DOMAIN init_tasks : init_tasks[s].pos = Len(all_intervals)
    /\ initial_synced' = initial_synced \cup Initialized(init_tasks)
    /\ FinishBatch(stats, tick)
    /\ UNCHANGED <<tick, steady_tasks, init_tasks, tick_no, trigger, active, exchange, worker,
                   scheduler_running>>

\* run_single_monitor_optimized: monitor_service has no run_all_checks_optimized, so
\* the task ends at once in its except branch, the tasks one after the other
MonitorTaskDone(symbol) ==
    /\ phase = "detect"
    /\ symbol \in DOMAIN monitor_tasks
    /\ monitor_tasks[symbol] = "running"
    /\ \A s \in DOMAIN monitor_tasks : s < symbol => monitor_tasks[s] # "running"
    /\ monitor_tasks' = [monitor_tasks EXCEPT ![symbol] = "error"]
    /\ UNCHANGED <<tick, phase, steady_tasks, init_tasks, initial_synced, stats, summary,
                   summaries, tick_no, trigger, active, exchange, worker,
                   scheduler_running>>

\* run_monitor_task's gather returns and the tick ends
MonitorGatherReturns ==
    /\ phase = "detect"
    /\ Gathered(monitor_tasks)
    /\ phase' = "idle"
    /\ UNCHANGED <<tick, steady_tasks, init_tasks, monitor_tasks, initial_synced, stats,
                   summary, summaries, tick_no, trigger, active, exchange, worker,
                   scheduler_running>>

\* except Exception as e: logger.error(...): the job returns to the scheduler
AfterException == "idle"

\* a statement of sync_klines_task or run_monitor_task itself raises: while the
\* work list is read, after the first gather, while the initialized symbols are
\* marked (the first marked of them stay marked), at the broadcast after the
\* summary, or in run_monitor_task after its gather
TickRaises ==
    /\ worker # "exited"
    /\ \/ /\ phase = "idle"
          /\ tick_no < MaxTicks
          /\ tick_no' = tick_no + 1
          /\ trigger' = trigger + 1
          /\ tick' = NoTick
          /\ steady_tasks' = NoTasks
          /\ init_tasks' = NoInitTasks
          /\ monitor_tasks' = NoTasks
          /\ summary' = NoSummary
          /\ phase' = AfterException
          /\ UNCHANGED <<stats, summaries, initial_synced>>
       \/ /\ phase = "steady"
          /\ Gathered(steady_tasks)
          /\ phase' = AfterException
          /\ UNCHANGED <<tick, steady_tasks, init_tasks, monitor_tasks, summary, stats,
                         summaries, initial_synced, tick_no, trigger>>
       \/ /\ phase = "init"
          /\ \A s \in DOMAIN init_tasks : init_tasks[s].pos = Len(all_intervals)
          /\ \E n \in 0..Cardinality(Initialized(init_tasks)) :
                initial_synced' = initial_synced \cup FirstN(Initialized(init_tasks), n)
          /\ phase' = AfterException
          /\ UNCHANGED <<tick, steady_tasks, init_tasks, monitor_tasks, summary, stats,
                         summaries, tick_no, trigger>>
       \/ /\ phase = "init"
          /\ \A s \in DOMAIN init_tasks : init_tasks[s].pos = Len(all_intervals)
          /\ initial_synced' = initial_synced \cup Initialized(init_tasks)
          /\ stats' = [open |-> FALSE, success_count |-> 0, failed_count |-> 0]
          /\ summary' = [success_count |-> stats.success_count,
                         failed_count |-> stats.failed_count]
          /\ summaries' = summaries + 1
          /\ phase' = AfterException
          /\ UNCHANGED <<tick, steady_tasks, init_tasks, monitor_tasks, tick_no, trigger>>
       \/ /\ phase = "detect"
          /\ Gathered(monitor_tasks)
          /\ phase' = "idle"
          /\ UNCHANGED <<tick, steady_tasks, init_tasks, monitor_tasks, summary, stats,
                         summaries, initial_synced, tick_no, trigger>>
    /\ UNCHANGED <<active, exchange, worker,
                   scheduler_running>>

\* a running task of a gather gets CancelledError at its await
Cancelled(tasks) ==
    [x \in DOMAIN tasks |-> IF tasks[x] = "running" THEN "cancelled" ELSE tasks[x]]

\* SIGINT or SIGTERM: signal_handler sets shutdown_event
SignalArrives ==
    /\ worker = "running"
    /\ worker' = "signalled"
    /\ UNCHANGED <<tick, phase, steady_tasks, init_tasks, monitor_tasks, initial_synced,
                   stats, summary, summaries, tick_no, trigger, active, exchange,
                   scheduler_running>>

\* main() wakes from shutdown_event.wait(), calls stop_scheduler() (shutdown with
\* wait=False) and returns; asyncio.run then cancels every task that is left, so
\* a tick in flight stops where it waits
WorkerExits ==
    /\ worker = "signalled"
    /\ worker' = "exited"
    /\ scheduler_running' = FALSE
    /\ phase' = IF phase = "idle" THEN "idle" ELSE "cancelled"
    /\ steady_tasks' = Cancelled(steady_tasks)
    /\ monitor_tasks' = Cancelled(monitor_tasks)
    /\ UNCHANGED <<tick, init_tasks, initial_synced, stats, summary, summaries, tick_no,
                   trigger, active, exchange>>

\* POST /scheduler/pause: scheduler.pause() and the flag is cleared
PauseScheduler ==
    /\ worker = "running"
    /\ scheduler_running
    /\ scheduler_running' = FALSE
    /\ UNCHANGED <<tick, phase, steady_tasks, init_tasks, monitor_tasks, initial_synced,
                   stats, summary, summaries, tick_no, trigger, active, exchange, worker>>

\* POST /scheduler/resume: scheduler.resume() and the flag is set
ResumeScheduler ==
    /\ worker = "running"
    /\ ~scheduler_running
    /\ scheduler_running' = TRUE
    /\ UNCHANGED <<tick, phase, steady_tasks, init_tasks, monitor_tasks, initial_synced,
                   stats, summary, summaries, tick_no, trigger, active, exchange, worker>>

InitTickQuiet ==
    /\ phase = "idle"
    /\ tick = NoTick
    /\ steady_tasks = NoTasks
    /\ init_tasks = NoInitTasks
    /\ monitor_tasks = NoTasks
    /\ summary = NoSummary
    /\ summaries = 0
    /\ tick_no = 0
    /\ worker = "running"
    /\ scheduler_running = TRUE

InitSymbolsQuiet ==
    /\ InitTickQuiet
    /\ trigger = 0
    /\ active = {}
    /\ initial_synced = {}
    /\ kline_pairs = Backfilled(initial_synced)
    /\ exchange = [down |-> {}, failing |-> {}, silent |-> {}]

----------------------------------------------------------------------------
\* the client at rest, for the specifications of the other subsystems
InitClientQuiet ==
    /\ clock = 0
    /\ InitRateLimiter(0)
    /\ InitCallers
    /\ direct = {}
    /\ calls_left = [c \in Callers |-> 0]

\* SpecRate: concurrent callers of _check_rate_limit
InitRate ==
    /\ clock = 0
    /\ \E warm \in WarmStarts : InitRateLimiter(warm)
    /\ InitCallers
    /\ direct = Callers
    /\ calls_left = [c \in Callers |-> MaxChecks]
    /\ InitSyncQuiet
    /\ InitAlertQuiet
    /\ InitSymbolsQuiet
    /\ InitDetectQuiet

NextRate ==
    \/ \E c \in Callers : CheckRateLimit(c) /\ UNCHANGED outsideClient
    \/ \E c \in Callers : LockGranted(c) /\ UNCHANGED outsideClient
    \/ \E c \in Callers : RateWake(c) /\ UNCHANGED outsideClient
    \/ Tick /\ UNCHANGED outsideClient
    \/ IdleDay /\ UNCHANGED outsideClient

SpecRate == InitRate /\ [][NextRate]_vars

----------------------------------------------------------------------------
(* Actions of _rate_limited_api_call *)

RetryEveryError(err) == "backoff"

\* what the except branch does with an exception: back off and retry, or raise it
RetryDecision(err) == IF IsRetryable(err) THEN "backoff" ELSE "raise"

\* for attempt in range(self.API_MAX_RETRIES)
LoopContinues(a) == a < API_MAX_RETRIES

\* a coroutine calls _rate_limited_api_call: the first iteration starts at once
StartCall(c) ==
    /\ c \notin direct
    /\ pc[c] = "idle"
    /\ calls_left[c] > 0
    /\ calls_left' = [calls_left EXCEPT ![c] = @ - 1]
    /\ attempt' = [attempt EXCEPT ![c] = 0]
    /\ api_calls' = [api_calls EXCEPT ![c] = 0]
    /\ backoffs' = [backoffs EXCEPT ![c] = <<>>]
    /\ outcome' = [outcome EXCEPT ![c] = "none"]
    /\ last_error' = [last_error EXCEPT ![c] = NoError]
    /\ EnterCheck(c, 0)
    /\ UNCHANGED <<clock, direct>>

\* await asyncio.sleep(self.API_RATE_LIMIT_DELAY) is over: api_func starts in a thread
DelayDone(c) ==
    /\ pc[c] = "delay"
    /\ sleep_left[c] = 0
    /\ pc' = [pc EXCEPT ![c] = "calling"]
    /\ sleep_left' = [sleep_left EXCEPT ![c] = 0]
    /\ api_calls' = [api_calls EXCEPT ![c] = @ + 1]
    /\ UNCHANGED <<clock, rateVars, direct, attempt, acquires, backoffs, outcome,
                   last_error, calls_left>>

\* result = await asyncio.to_thread(api_func, **kwargs); return result
ApiReturns(c) ==
    /\ pc[c] = "calling"
    /\ pc' = [pc EXCEPT ![c] = "idle"]
    /\ outcome' = [outcome EXCEPT ![c] = "returned"]
    /\ UNCHANGED <<clock, rateVars, direct, sleep_left, attempt, api_calls, acquires,
                   backoffs, last_error, calls_left>>

\* except Exception as e: retryable errors sleep the backoff delay, others are raised
ApiRaises(c, err) ==
    /\ pc[c] = "calling"
    /\ last_error' = [last_error EXCEPT ![c] = err]
    /\ IF RetryDecision(err) = "backoff"
       THEN /\ pc' = [pc EXCEPT ![c] = "backoff"]
            /\ sleep_left' = [sleep_left EXCEPT ![c] = BackoffDelay(attempt[c])]
            /\ backoffs' = [backoffs EXCEPT ![c] = Append(@, BackoffDelay(attempt[c]))]
            /\ UNCHANGED outcome
       ELSE /\ pc' = [pc EXCEPT ![c] = "idle"]
            /\ outcome' = [outcome EXCEPT ![c] = "raised"]
            /\ UNCHANGED <<sleep_left, backoffs>>
    /\ UNCHANGED <<clock, rateVars, direct, attempt, api_calls, acquires, calls_left>>

\* the backoff sleep is over: the next iteration starts, or the loop is exhausted
\* and raise Exception("API调用失败，已重试5次: ...") ends the call
BackoffDone(c) ==
    /\ pc[c] = "backoff"
    /\ sleep_left[c] = 0
    /\ attempt' = [attempt EXCEPT ![c] = @ + 1]
    /\ IF LoopContinues(attempt[c] + 1)
       THEN /\ EnterCheck(c, acquires[c])
            /\ UNCHANGED outcome
       ELSE /\ pc' = [pc EXCEPT ![c] = "idle"]
            /\ sleep_left' = [sleep_left EXCEPT ![c] = 0]
            /\ outcome' = [outcome EXCEPT ![c] = "exhausted"]
            /\ UNCHANGED <<rateVars, acquires>>
    /\ UNCHANGED <<clock, direct, api_calls, backoffs, last_error, calls_left>>

\* SpecCall: two coroutines that call _rate_limited_api_call concurrently
InitCall ==
    /\ clock = 0
    /\ \E warm \in WarmStarts : InitRateLimiter(warm)
    /\ InitCallers
    /\ direct = {}
    /\ calls_left = [c \in Callers |-> IF c \in ApiCallers THEN MaxCalls ELSE 0]
    /\ InitSyncQuiet
    /\ InitAlertQuiet
    /\ InitSymbolsQuiet
    /\ InitDetectQuiet

NextCall ==
    \/ \E c \in Callers : StartCall(c) /\ UNCHANGED outsideClient
    \/ \E c \in Callers : LockGranted(c) /\ UNCHANGED outsideClient
    \/ \E c \in Callers : RateWake(c) /\ UNCHANGED outsideClient
    \/ \E c \in Callers : DelayDone(c) /\ UNCHANGED outsideClient
    \/ \E c \in Callers : ApiReturns(c) /\ UNCHANGED outsideClient
    \/ \E c \in Callers, err \in Errors : ApiRaises(c, err) /\ UNCHANGED outsideClient
    \/ \E c \in Callers : BackoffDone(c) /\ UNCHANGED outsideClient
    \/ Tick /\ UNCHANGED outsideClient

SpecCall == InitCall /\ [][NextCall]_vars

----------------------------------------------------------------------------
\* SpecSync: coroutines that call sync_klines, the scheduler's with a batch of
\* the stats collector open, a manual sync without
InitSync ==
    /\ InitStore
    /\ syncs_left = MaxSyncs
    /\ \E open \in BOOLEAN : stats = [open |-> open, success_count |-> 0, failed_count |-> 0]
    /\ InitClientQuiet
    /\ InitAlertQuiet
    /\ InitSymbolsQuiet
    /\ InitDetectQuiet

NextSync ==
    \/ \E c \in Syncers, s \in Series, force \in BOOLEAN : SyncKlines(c, s, force) /\ UNCHANGED outsideSync
    \/ \E c \in Syncers : PageReturns(c) /\ UNCHANGED outsideSync
    \/ \E c \in Syncers : PageFails(c) /\ UNCHANGED outsideSync
    \/ AdvanceTime /\ UNCHANGED outsideSync
    \/ IdleGap /\ UNCHANGED outsideSync

SpecSync == InitSync /\ [][NextSync]_vars

\* SpecLive: coroutines call _check_rate_limit with the counter near the
\* threshold while one sync_klines call fetches the pages of an initial sync, the
\* store empty and the exchange MaxNow seconds old; the event loop
\* resumes every coroutine that is ready, time passes, and every awaited API
\* call returns or raises
InitLive ==
    /\ clock = 0
    /\ InitRateLimiter(SoftThreshold - WarmGap)
    /\ InitCallers
    /\ direct = Callers
    /\ calls_left = [c \in Callers |-> MaxChecks - 1]
    /\ utcnow = MaxNow
    /\ store = {}
    /\ last_sync_time = [s \in Series |-> None]
    /\ sync_pc = [c \in Syncers |-> "idle"]
    /\ sync_job = [c \in Syncers |-> NoJob]
    /\ sync_result = NoResult
    /\ syncs_left = 1
    /\ stats = [open |-> TRUE, success_count |-> 0, failed_count |-> 0]
    /\ InitAlertQuiet
    /\ InitSymbolsQuiet
    /\ InitDetectQuiet

NextLive ==
    \/ \E c \in Callers : CheckRateLimit(c) /\ UNCHANGED outsideClient
    \/ \E c \in Callers : LockGranted(c) /\ UNCHANGED outsideClient
    \/ \E c \in Callers : RateWake(c) /\ UNCHANGED outsideClient
    \/ Tick /\ UNCHANGED outsideClient
    \/ \E c \in Syncers, s \in Series, force \in BOOLEAN : SyncKlines(c, s, force) /\ UNCHANGED outsideSync
    \/ \E c \in Syncers : PageReturns(c) /\ UNCHANGED outsideSync
    \/ \E c \in Syncers : PageFails(c) /\ UNCHANGED outsideSync

Resumed ==
    /\ WF_vars(Tick /\ UNCHANGED outsideClient)
    /\ \A c \in Callers : WF_vars(LockGranted(c) /\ UNCHANGED outsideClient)
    /\ \A c \in Callers : WF_vars(RateWake(c) /\ UNCHANGED outsideClient)
    /\ \A c \in Syncers : WF_vars((PageReturns(c) \/ PageFails(c)) /\ UNCHANGED outsideSync)

SpecLive == InitLive /\ [][NextLive]_vars /\ Resumed

\* SpecFault: sync_klines with a database that may fail during the write
InitFault ==
    /\ InitStore
    /\ syncs_left = MaxSyncs - 1
    /\ stats = [open |-> TRUE, success_count |-> 0, failed_count |-> 0]
    /\ InitClientQuiet
    /\ InitAlertQuiet
    /\ InitSymbolsQuiet
    /\ InitDetectQuiet

NextFault ==
    \/ NextSync
    \/ \E c \in Syncers : PersistFails(c) /\ UNCHANGED outsideSync

SpecFault == InitFault /\ [][NextFault]_vars

\* SpecCrowd: bursts of callers of _rate_limited_api_call around minute boundaries
InitCrowd == InitClientQuiet /\ InitSyncQuiet /\ InitAlertQuiet /\ InitSymbolsQuiet
                 /\ InitDetectQuiet

NextCrowd ==
    \/ \E k \in CrowdSizes : CrowdAcquire(k) /\ UNCHANGED outsideCrowd
    \/ CrowdWait /\ UNCHANGED outsideCrowd
    \/ CrowdDelay /\ UNCHANGED outsideCrowd
    \/ CrowdIssue /\ UNCHANGED outsideCrowd
    \/ CrowdIdle /\ UNCHANGED outsideCrowd

SpecCrowd == InitCrowd /\ [][NextCrowd]_vars

\* SpecWindow: volume and rise detections call reminder while time passes
InitWindow ==
    /\ InitAlertTables
    /\ \E i1 \in IntervalConfigs, i2 \in IntervalConfigs :
          config = [interval_1 |-> i1, interval_2 |-> i2, dedup_enabled |-> None]
    /\ reminders_left = MaxReminders
    /\ InitClientQuiet
    /\ InitSyncQuiet
    /\ InitSymbolsQuiet
    /\ InitDetectQuiet

NextWindow ==
    \/ \E symbol \in AlertSymbols, det \in WindowDetections, send_wechat \in BOOLEAN :
          Reminder(symbol, det, send_wechat) /\ UNCHANGED outsideAlert
    \/ AdvanceTime /\ UNCHANGED outsideSync
    \/ IdleGap /\ UNCHANGED outsideSync

SpecWindow == InitWindow /\ [][NextWindow]_vars

\* SpecPattern: pattern detections call reminder while time passes and the
\* operator switches the pattern dedup off and on
InitPattern ==
    /\ InitAlertTables
    /\ config = [interval_1 |-> 0, interval_2 |-> 0, dedup_enabled |-> None]
    /\ reminders_left = MaxReminders
    /\ InitClientQuiet
    /\ InitSyncQuiet
    /\ InitSymbolsQuiet
    /\ InitDetectQuiet

NextPattern ==
    \/ \E symbol \in AlertSymbols, det \in PatternDetections, send_wechat \in BOOLEAN :
          Reminder(symbol, det, send_wechat) /\ UNCHANGED outsideAlert
    \/ \E v \in DedupConfigs : SetDedupConfig(v) /\ UNCHANGED outsideAlert
    \/ AdvanceTime /\ UNCHANGED outsideSync
    \/ IdleGap /\ UNCHANGED outsideSync

SpecPattern == InitPattern /\ [][NextPattern]_vars

\* SpecRace: check coroutines of one event loop call reminder for the same
\* detections while time passes
RaceDetections ==
    {[alert_type |-> 1, dedup_key |-> ""],
     [alert_type |-> 3, dedup_key |-> "1h_202401020000_202401010000"]}

InitRace ==
    /\ InitAlertTables
    /\ \E i \in IntervalConfigs :
          config = [interval_1 |-> i, interval_2 |-> i, dedup_enabled |-> None]
    /\ reminders_left = MaxReminders - 1
    /\ InitClientQuiet
    /\ InitSyncQuiet
    /\ InitSymbolsQuiet
    /\ InitDetectQuiet

NextRace ==
    \/ \E d \in Detectors, symbol \in AlertSymbols, det \in RaceDetections :
          Detect(d, symbol, det) /\ UNCHANGED outsideReminding
    \/ \E d \in Detectors : ReminderStep(d) /\ UNCHANGED outsideReminding
    \/ AdvanceTime /\ UNCHANGED outsideSync
    \/ IdleGap /\ UNCHANGED outsideSync

SpecRace == InitRace /\ [][NextRace]_vars

\* SpecGate: detections of all three types call reminder while time passes
InitGate ==
    /\ InitAlertTables
    /\ \E i \in IntervalConfigs :
          config = [interval_1 |-> i, interval_2 |-> i, dedup_enabled |-> None]
    /\ reminders_left = MaxReminders
    /\ InitClientQuiet
    /\ InitSyncQuiet
    /\ InitSymbolsQuiet
    /\ InitDetectQuiet

NextGate ==
    \/ \E symbol \in AlertSymbols, det \in WindowDetections \cup PatternDetections,
          send_wechat \in BOOLEAN :
          Reminder(symbol, det, send_wechat) /\ UNCHANGED outsideAlert
    \/ AdvanceTime /\ UNCHANGED outsideSync
    \/ IdleGap /\ UNCHANGED outsideSync

SpecGate == InitGate /\ [][NextGate]_vars

\* the exchange: at most one symbol whose every sync fails, at most one more
\* (symbol, interval) that fails and at most one that has no candles
FaultIntervals == {"1m", "15m"}
Exchanges(symbols, pairs) ==
    {[down |-> d, failing |-> f, silent |-> q] :
        d \in {{}} \cup {{x} : x \in symbols},
        f \in {{}} \cup {{x} : x \in pairs},
        q \in {{}} \cup {{x} : x \in pairs}}

NextTick ==
    \/ TickStart /\ UNCHANGED outsideTick
    \/ \E s \in Symbols, i \in Range(all_intervals) : SteadyTaskDone(s, i) /\ UNCHANGED outsideBackfill
    \/ SteadyGatherReturns /\ UNCHANGED outsideTick
    \/ \E s \in Symbols : InitSyncDone(s) /\ UNCHANGED outsideBackfill
    \/ InitGatherReturns /\ UNCHANGED outsideTick
    \/ \E s \in Symbols : MonitorTaskDone(s) /\ UNCHANGED outsideTick
    \/ MonitorGatherReturns /\ UNCHANGED outsideTick

\* SpecProgressive: every symbol is active and none is initialized; ticks fire at
\* minutes in which only the 1m interval is due
InitProgressive ==
    /\ InitTickQuiet
    /\ trigger = QuietMinute
    /\ active = Symbols
    /\ initial_synced = {}
    /\ kline_pairs = Backfilled(initial_synced)
    /\ exchange \in Exchanges(Symbols, {})
    /\ InitClientQuiet
    /\ InitSyncQuiet
    /\ InitAlertQuiet
    /\ InitDetectQuiet

SpecProgressive == InitProgressive /\ [][NextTick]_vars

\* SpecStarve: as SpecProgressive, with the exchange failing every sync of the
\* first k symbols, k up to the batch size
InitStarve ==
    /\ InitTickQuiet
    /\ trigger = QuietMinute
    /\ active = Symbols
    /\ initial_synced = {}
    /\ kline_pairs = Backfilled(initial_synced)
    /\ \E k \in 0..INITIAL_SYNC_BATCH_SIZE :
          exchange = [down |-> 1..k, failing |-> {}, silent |-> {}]
    /\ InitClientQuiet
    /\ InitSyncQuiet
    /\ InitAlertQuiet
    /\ InitDetectQuiet

SpecStarve == InitStarve /\ [][NextTick]_vars

\* SpecTick: a few active symbols, some of them initialized, from midnight on
InitTick ==
    /\ InitTickQuiet
    /\ trigger = 0
    /\ active = 1..NumActive
    /\ \E k \in 0..NumActive : initial_synced = 1..k
    /\ kline_pairs = Backfilled(initial_synced)
    /\ exchange \in Exchanges(1..NumActive, (1..NumActive) \X FaultIntervals)
    /\ InitClientQuiet
    /\ InitSyncQuiet
    /\ InitAlertQuiet
    /\ InitDetectQuiet

SpecTick == InitTick /\ [][NextTick]_vars

\* SpecShutdown: the ticks of SpecTick in a worker that gets a shutdown signal
NextShutdown ==
    \/ NextTick
    \/ SignalArrives /\ UNCHANGED outsideTick
    \/ WorkerExits /\ UNCHANGED outsideTick

SpecShutdown == InitTick /\ [][NextShutdown]_vars

\* SpecSchedule: one initialized and one new symbol, the first tick at any
\* minute of the day
InitSchedule ==
    /\ InitTickQuiet
    /\ trigger \in 0..(HoursPerDay * MinutesPerHour - 1)
    /\ active = 1..2
    /\ initial_synced = {1}
    /\ kline_pairs = Backfilled(initial_synced)
    /\ exchange = [down |-> {}, failing |-> {}, silent |-> {}]
    /\ InitClientQuiet
    /\ InitSyncQuiet
    /\ InitAlertQuiet
    /\ InitDetectQuiet

SpecSchedule == InitSchedule /\ [][NextTick]_vars

\* SpecPause: the ticks of SpecTick while the operator pauses and resumes the
\* scheduler
NextPause ==
    \/ NextTick
    \/ PauseScheduler /\ UNCHANGED outsideTick
    \/ ResumeScheduler /\ UNCHANGED outsideTick

SpecPause == InitTick /\ [][NextPause]_vars

\* SpecAbort: the ticks of SpecTick, any of which may raise in the job itself
NextAbort ==
    \/ NextTick
    \/ TickRaises /\ UNCHANGED outsideTick

SpecAbort == InitTick /\ [][NextAbort]_vars

\* SpecDetect: the volume and the rise check run on the candles of one market
InitDetect ==
    /\ market \in Markets
    /\ thresholds \in Thresholds
    /\ bullish = <<>>
    /\ bullish_times = <<>>
    /\ symbol_configs = {}
    /\ last_check = NoCheck
    /\ InitAlertTables
    /\ config = [interval_1 |-> 0, interval_2 |-> 0, dedup_enabled |-> None]
    /\ reminders_left = MaxReminders
    /\ InitClientQuiet
    /\ InitSyncQuiet
    /\ InitSymbolsQuiet

NextDetect ==
    \/ \E symbol \in AlertSymbols : CheckVolumeWithKlines(symbol) /\ UNCHANGED outsideDetect
    \/ \E symbol \in AlertSymbols : CheckRiseWithKlines(symbol) /\ UNCHANGED outsideDetect

SpecDetect == InitDetect /\ [][NextDetect]_vars

\* SpecMatch: the pattern check runs on the stored bullish candles of one timeframe
InitMatch ==
    /\ market = [n |-> 0, pos |-> 1, base |-> 0, spike |-> 0, open |-> 0, close |-> 0]
    /\ thresholds \in PatternThresholds
    /\ bullish \in BullishLists
    /\ bullish_times = EveryPeriod(Len(bullish))
    /\ symbol_configs = {}
    /\ last_check = NoCheck
    /\ InitAlertTables
    /\ config = [interval_1 |-> 0, interval_2 |-> 0, dedup_enabled |-> None]
    /\ reminders_left = MaxReminders
    /\ InitClientQuiet
    /\ InitSyncQuiet
    /\ InitSymbolsQuiet

NextMatch ==
    \E symbol \in AlertSymbols : CheckOpenPriceMatchWithDb(symbol) /\ UNCHANGED outsideDetect

SpecMatch == InitMatch /\ [][NextMatch]_vars

\* SpecSpan: the pattern check on bullish candles that are not one period apart
InitSpan ==
    /\ market = [n |-> 0, pos |-> 1, base |-> 0, spike |-> 0, open |-> 0, close |-> 0]
    /\ thresholds \in PatternThresholds
    /\ bullish \in SpanBullish
    /\ bullish_times \in OpenTimeLists(Len(bullish))
    /\ symbol_configs = {}
    /\ last_check = NoCheck
    /\ InitAlertTables
    /\ config = [interval_1 |-> 0, interval_2 |-> 0, dedup_enabled |-> None]
    /\ reminders_left = MaxReminders
    /\ InitClientQuiet
    /\ InitSyncQuiet
    /\ InitSymbolsQuiet

SpecSpan == InitSpan /\ [][NextMatch]_vars

\* SpecOverride: the pattern check with rows in symbol_configs, which the
\* operator may delete
InitOverride ==
    /\ market = [n |-> 0, pos |-> 1, base |-> 0, spike |-> 0, open |-> 0, close |-> 0]
    /\ thresholds = DefaultThresholds
    /\ bullish \in OverrideBullish
    /\ bullish_times = EveryPeriod(Len(bullish))
    /\ symbol_configs \in SymbolConfigTables
    /\ last_check = NoCheck
    /\ InitAlertTables
    /\ config = [interval_1 |-> 0, interval_2 |-> 0, dedup_enabled |-> None]
    /\ reminders_left = MaxReminders
    /\ InitClientQuiet
    /\ InitSyncQuiet
    /\ InitSymbolsQuiet

NextOverride ==
    \/ \E symbol \in AlertSymbols : CheckOpenPriceMatchWithDb(symbol) /\ UNCHANGED outsideDetect
    \/ \E k \in OverrideKeys : DeleteSymbolConfig(k[1], k[2]) /\ UNCHANGED outsideDetect

SpecOverride == InitOverride /\ [][NextOverride]_vars

\* SpecResolve: the three checks of run_all_checks with rows in symbol_configs
InitResolve ==
    /\ market \in ResolveMarkets
    /\ thresholds \in ResolveThresholds
    /\ bullish \in OverrideBullish
    /\ bullish_times = EveryPeriod(Len(bullish))
    /\ symbol_configs \in ResolveTables
    /\ last_check = NoCheck
    /\ InitAlertTables
    /\ config = [interval_1 |-> 0, interval_2 |-> 0, dedup_enabled |-> None]
    /\ reminders_left = MaxReminders
    /\ InitClientQuiet
    /\ InitSyncQuiet
    /\ InitSymbolsQuiet

NextResolve ==
    \/ \E symbol \in AlertSymbols : CheckVolumeWithKlines(symbol) /\ UNCHANGED outsideDetect
    \/ \E symbol \in AlertSymbols : CheckRiseWithKlines(symbol) /\ UNCHANGED outsideDetect
    \/ \E symbol \in AlertSymbols : CheckOpenPriceMatchWithDb(symbol) /\ UNCHANGED outsideDetect
    \/ \E k \in ResolveKeys : DeleteSymbolConfig(k[1], k[2]) /\ UNCHANGED outsideDetect

SpecResolve == InitResolve /\ [][NextResolve]_vars

----------------------------------------------------------------------------
\* C1: in every wall-clock minute at most SoftThreshold counter increments
\* take place, and a caller that found the counter at the threshold is
\* counted in a later minute than the one it found full.
C1_WindowNeverExceedsThreshold ==
    /\ acq_count <= SoftThreshold
    /\ last_acq.waited => last_acq.minute > last_acq.found

\* a full window, a caller that waited for the next one and was counted in it
C1_Witness ==
    /\ last_acq.waited
    /\ last_acq.minute = last_acq.found + 1
    /\ request_count = 1

\* C2: the store never holds two rows for one (symbol, interval, open_time), and
\* no sync_klines call ends in a uniqueness conflict, whether or not another call
\* for the same series wrote to the store while it was fetching.
C2_OneRowPerCandle ==
    /\ UniqueKeys(store)
    /\ sync_result.error # "UNIQUE constraint failed"

\* a call that succeeded although candles it fetched were stored by another
\* call between its start and its write
C2_Witness ==
    /\ sync_result.status = "ok"
    /\ sync_result.overlapped
    /\ sync_result.updated > 0
    /\ Cardinality(store) >= 2

\* C3: a sync_klines call whose fetched candles are all stored already succeeds,
\* inserts no row, counts every fetched candle as an update, leaves the number
\* of rows of the series as it was and keeps id, symbol, interval and open_time
\* of every row.
C3_ResyncIsIdempotent ==
    sync_result.covered =>
        /\ sync_result.status = "ok"
        /\ sync_result.inserted = 0
        /\ sync_result.updated = sync_result.fetched
        /\ sync_result.rows_after = sync_result.rows_before
        /\ sync_result.identity_kept

\* a re-sync of stored candles that rewrote the price fields of one of them
C3_Witness ==
    /\ sync_result.covered
    /\ sync_result.status = "ok"
    /\ sync_result.fetched >= 2
    /\ sync_result.changed

\* C4: with a reminder interval of R > 0 minutes, a volume or rise detection
\* that comes less than R minutes after the last persisted Alert of its
\* (symbol, type) is suppressed and adds no Alert; one that comes more than R
\* minutes after it adds one Alert and moves last-fired to its own time; so no
\* two Alerts of one (symbol, type) are less than R minutes apart.
C4_WindowDedup ==
    LET r == last_reminder
        R(alert_type) == IntervalMinutes(alert_type) * SecondsPerMinute
    IN  /\ (r.result # "none" /\ r.det.alert_type \in {1, 2} /\ r.had_prior
                /\ R(r.det.alert_type) > 0) =>
               /\ r.elapsed < R(r.det.alert_type) =>
                      (r.result = "suppressed" /\ r.added = 0)
               /\ r.elapsed > R(r.det.alert_type) =>
                      (r.added = 1 /\ r.last_fired = r.at)
        /\ \A a, b \in alerts :
               (a # b /\ a.symbol = b.symbol /\ a.alert_type = b.alert_type
                    /\ a.alert_type \in {1, 2} /\ R(a.alert_type) > 0) =>
                  \/ a.created_at - b.created_at >= R(a.alert_type)
                  \/ b.created_at - a.created_at >= R(a.alert_type)

\* a detection suppressed inside the window of the second Alert of its group
C4_Witness ==
    /\ last_reminder.result = "suppressed"
    /\ last_reminder.det.alert_type \in {1, 2}
    /\ last_reminder.elapsed > 0
    /\ last_reminder.elapsed < IntervalMinutes(last_reminder.det.alert_type) * SecondsPerMinute
    /\ Cardinality(AlertsOf(alerts, last_reminder.symbol, last_reminder.det)) = 2

\* C5: while the pattern dedup is enabled, a firing whose (symbol, key) has a
\* dedup record is suppressed however old the record is, so a key fired only
\* under enabled dedup has one Alert; while it is disabled every firing adds
\* an Alert.
C5_PatternDedup ==
    LET r == last_reminder
    IN  /\ dedup_always_on =>
               \A a, b \in alerts :
                  (a.alert_type = 3 /\ b.alert_type = 3 /\ a.symbol = b.symbol
                       /\ a.data = b.data) => a = b
        /\ (r.result # "none" /\ r.det.alert_type = 3 /\ r.dedup_enabled /\ r.key_known) =>
               (r.result = "suppressed" /\ r.added = 0)
        /\ (r.result # "none" /\ r.det.alert_type = 3 /\ ~r.dedup_enabled) =>
               r.added = 1

\* a key fired twice while the dedup was off, and suppressed minutes later
\* once it was on again
C5_Witness ==
    /\ last_reminder.result = "suppressed"
    /\ last_reminder.det.alert_type = 3
    /\ last_reminder.elapsed >= IdleSeconds
    /\ Cardinality(AlertsOf(alerts, last_reminder.symbol, last_reminder.det)) = 2


\* the doubling delays 0.5 s, 1 s, 2 s, ... slept after the first n failed attempts
DoublingDelays(n) == [k \in 1..n |-> API_RETRY_BASE_DELAY * Pow2(k - 1)]

\* C6: with every backfill succeeding, tick k of a system that starts with N
\* uninitialized active symbols initializes exactly min(B, N - (k-1)B) of them
\* (B = INITIAL_SYNC_BATCH_SIZE); once ceil(N/B) ticks have run every symbol is
\* marked initial_synced, and from the tick after on every symbol is in the
\* steady-state cohort and is handed to detection.
BackfillsSucceed ==
    \A s \in Symbols, i \in Range(all_intervals) : SyncOutcome(s, i) = "ok"

TicksToInitialize == CeilDiv(NumSymbols, INITIAL_SYNC_BATCH_SIZE)

C6_ProgressiveInitialization ==
    (BackfillsSucceed /\ tick_no >= 1) =>
        LET k == tick_no
            batch == Min(INITIAL_SYNC_BATCH_SIZE,
                         NumSymbols - (k - 1) * INITIAL_SYNC_BATCH_SIZE)
            over == phase \in {"idle", "detect"}
        IN  /\ k <= TicksToInitialize =>
                  /\ Cardinality(tick.to_initialize) = batch
                  /\ Cardinality(initial_synced) =
                        (k - 1) * INITIAL_SYNC_BATCH_SIZE + (IF over THEN batch ELSE 0)
            /\ (k > TicksToInitialize \/ (k = TicksToInitialize /\ over)) =>
                  initial_synced = Symbols
            /\ k > TicksToInitialize =>
                  /\ tick.to_initialize = {}
                  /\ tick.synced_symbols = Symbols
                  /\ {x[1] : x \in DOMAIN steady_tasks} = Symbols
                  /\ over => DOMAIN monitor_tasks = Symbols

C6_Witness ==
    /\ BackfillsSucceed
    /\ tick_no = TicksToInitialize + 1
    /\ phase = "idle"
    /\ DOMAIN monitor_tasks = Symbols
    /\ summary.success_count = NumSymbols

\* C7: detection is invoked in a tick only if at least one steady-state sync of
\* that tick succeeded; with every steady-state sync failing it is not run, even
\* if syncs of the progressive initialization succeeded.
C7_DetectionNeedsSteadySuccess ==
    DOMAIN monitor_tasks # {} =>
        \E x \in DOMAIN steady_tasks : steady_tasks[x] = "ok"

\* C8: a tick never fails fast: it goes on only when every sibling task of a
\* gather has finished, every task whose sync raised has become an error result
\* of its own (and no other has), and every tick logs its batch summary.
C8_NeverFailFast ==
    /\ phase # "steady" => Gathered(steady_tasks)
    /\ \A x \in DOMAIN steady_tasks :
          steady_tasks[x] # "running" =>
              steady_tasks[x] = (IF SyncOutcome(x[1], x[2]) = "fail" THEN "error" ELSE "ok")
    /\ phase \in {"idle", "detect"} =>
          \A s \in DOMAIN init_tasks :
              /\ init_tasks[s].pos = Len(all_intervals)
              /\ init_tasks[s].success =
                    (\A i \in Range(all_intervals) : SyncOutcome(s, i) # "fail")
    /\ phase = "idle" =>
          \A s \in DOMAIN monitor_tasks : monitor_tasks[s] = "error"
    /\ summaries = (IF phase \in {"idle", "detect"} THEN tick_no ELSE tick_no - 1)
    /\ (phase \in {"idle", "detect"} /\ tick_no >= 1) => summary # NoSummary

C8_Witness ==
    /\ phase = "idle"
    /\ summaries = 1
    /\ summary.failed_count > 1
    /\ summary.success_count > 0
    /\ \E x, y \in DOMAIN steady_tasks : steady_tasks[x] = "error" /\ steady_tasks[y] = "ok"
    /\ \E s \in DOMAIN init_tasks : ~init_tasks[s].success
    /\ DOMAIN monitor_tasks # {}

ClosedCount == IF market.n = 0 THEN 0 ELSE market.n - 1

\* the volume of the w newest closed candles: the odd candle is among them when
\* it is the 2nd .. (w+1)-th candle from the end
ClosedVolume(w) ==
    Min(w, ClosedCount) * market.base
    + (IF market.pos >= 2 /\ market.pos <= Min(w, ClosedCount) + 1 THEN market.spike ELSE 0)

\* C11: with at least 15 closed 1-minute candles the volume check hands a
\* detection to the alert gate iff A >= B * volume_percent / 100, A the volume of
\* the 15 newest closed candles, B that of the (up to) 480 newest closed ones,
\* the forming candle in neither.
C11_VolumeTrigger ==
    (last_check.kind = "volume" /\ ClosedCount >= ShortWindow) =>
        LET A == ClosedVolume(ShortWindow)
            B == ClosedVolume(LongWindow)
        IN  /\ last_check.sent =
                  (A * Hundred * PercentScale >= B * thresholds.volume_percent)
            /\ last_check.sent =>
                  /\ last_reminder.det.alert_type = 1
                  /\ last_reminder.result # "suppressed"

C11_Witness ==
    /\ last_check.kind = "volume"
    /\ last_check.sent
    /\ ClosedCount > LongWindow
    /\ thresholds.volume_percent > 0
    /\ market.base > 0
    /\ \E a \in alerts : a.alert_type = 1

\* C12: with fewer than 15 closed 1-minute candles the volume check never hands
\* a detection to the alert gate, whatever the volumes and the volume_percent.
C12_NoVolumeTriggerBelowWindow ==
    (last_check.kind = "volume" /\ ClosedCount < ShortWindow) => ~last_check.sent

\* C13: the rise check hands a detection to the alert gate iff there are at least
\* 15 closed candles, the open of the oldest of the 15 newest closed candles is
\* not zero and (last.close - first.open) / first.open * 100 >= rise_percent; it
\* never divides by zero.
C13_RiseTrigger ==
    last_check.kind = "rise" =>
        /\ ~last_check.failed
        /\ last_check.sent =
              /\ ClosedCount >= ShortWindow
              /\ Klines1m[market.n - ShortWindow].open # 0
              /\ (Klines1m[market.n - 1].close - Klines1m[market.n - ShortWindow].open)
                     * Hundred * PercentScale
                 >= thresholds.rise_percent * Klines1m[market.n - ShortWindow].open

C13_Witness ==
    /\ last_check.kind = "rise"
    /\ last_check.sent
    /\ \E a \in alerts : a.alert_type = 2

\* C14: the pattern check reports the E of the smallest index i that has
\* i >= middle_kline_count, |D.open - E.open| / min(D.open, E.open) * 100 <=
\* price_error and at most fake_kline_count bullish candles between E and D that
\* open below (D.open + E.open) / 2; when no E qualifies nothing fires.
Qualifying ==
    {i \in 1..(Len(bullish) - 1) :
        /\ i >= thresholds.middle_kline_cnt
        /\ LET d == bullish[1]
               e == bullish[i + 1]
               between == {j \in 1..Len(bullish) : j > 1 /\ j < i + 1}
           IN  /\ (d - e) * Hundred * PercentScale <= thresholds.price_error * Min(d, e)
               /\ (e - d) * Hundred * PercentScale <= thresholds.price_error * Min(d, e)
               /\ Cardinality({j \in between : 2 * bullish[j] < d + e})
                      <= thresholds.fake_kline_cnt}

C14_NearestQualifyingMatch ==
    last_check.kind = "pattern" =>
        IF Qualifying = {}
        THEN ~last_check.sent /\ last_check.matched = 0
        ELSE /\ last_check.sent
             /\ last_check.matched \in Qualifying
             /\ \A i \in Qualifying : last_check.matched <= i
             /\ last_reminder.det = [alert_type |-> 3,
                                     dedup_key |-> MatchKeys[last_check.matched]]

C14_Witness ==
    /\ last_check.kind = "pattern"
    /\ last_check.sent
    /\ last_check.matched > thresholds.middle_kline_cnt
    /\ thresholds.middle_kline_cnt > 0
    /\ Cardinality(Qualifying) > 1
    /\ \E a \in alerts : a.alert_type = 3 /\ a.data = MatchKeys[last_check.matched]

\* C15: the detection of a tick runs on exactly the symbols that were active
\* and initial_synced when the tick read its work list; a symbol that the tick
\* itself initializes is not passed to detection in that tick.
C15_DetectionOnStartCohort ==
    DOMAIN monitor_tasks # {} =>
        /\ DOMAIN monitor_tasks = {x[1] : x \in DOMAIN steady_tasks}
        /\ DOMAIN monitor_tasks = tick.synced_symbols
        /\ DOMAIN monitor_tasks \subseteq active
        /\ DOMAIN monitor_tasks \cap tick.unsynced_symbols = {}
        /\ DOMAIN monitor_tasks \cap DOMAIN init_tasks = {}

C15_Witness ==
    /\ phase = "detect"
    /\ \E s \in DOMAIN init_tasks :
          /\ init_tasks[s].success
          /\ s \in initial_synced
          /\ s \notin DOMAIN monitor_tasks
    /\ DOMAIN monitor_tasks # {}

\* C16: a call of reminder that the gate accepts adds exactly one Alert and writes
\* the dedup record of its group, and hands the detection to the notifier at most
\* once; no step, whether or not the notifier raised, removes an Alert or takes
\* a dedup record back.
AcceptedBy(r) == r.result \in {"raised", "returned"}

C16_PersistedBeforeDelivery ==
    [][/\ alerts \subseteq alerts'
       /\ \A d \in dedups : \E e \in dedups' :
             /\ e.id = d.id /\ e.symbol = d.symbol /\ e.alert_type = d.alert_type
             /\ e.dedup_key = d.dedup_key /\ e.last_alert_time >= d.last_alert_time
       /\ reminders_left' < reminders_left =>
             IF AcceptedBy(last_reminder')
             THEN /\ Cardinality(alerts') = Cardinality(alerts) + 1
                  /\ \E a \in alerts' \ alerts :
                        /\ a.symbol = last_reminder'.symbol
                        /\ a.alert_type = last_reminder'.det.alert_type
                        /\ a.created_at = utcnow
                  /\ \E e \in dedups' :
                        /\ e.symbol = last_reminder'.symbol
                        /\ e.alert_type = last_reminder'.det.alert_type
                        /\ e.last_alert_time = utcnow
                  /\ last_reminder'.posts <= 1
             ELSE alerts' = alerts /\ dedups' = dedups]_vars

C16_Witness ==
    /\ last_reminder.result = "raised"
    /\ last_reminder.had_prior
    /\ Cardinality(AlertsOf(alerts, last_reminder.symbol, last_reminder.det)) > 1
    /\ \E e \in dedups :
          /\ e.symbol = last_reminder.symbol
          /\ e.alert_type = last_reminder.det.alert_type
          /\ e.last_alert_time = last_reminder.at

\* C17: a sync_klines call is skipped by the throttle only if it has force = false
\* and its own (symbol, interval) was synced less than SYNC_THROTTLE_SECONDS
\* earlier, and every such call is skipped; a skipped call returns 0 without a
\* request, without touching the store and without changing the last-sync time.
C17_ThrottleSkipsOnlyRecentUnforced ==
    [][syncs_left' < syncs_left =>
          IF sync_pc' = sync_pc
          THEN /\ sync_result'.status = "throttled"
               /\ ~sync_result'.force
               /\ last_sync_time[sync_result'.series] # None
               /\ utcnow - Val(last_sync_time[sync_result'.series]) < SYNC_THROTTLE_SECONDS
               /\ sync_result'.inserted = 0
               /\ UNCHANGED <<store, last_sync_time, sync_job, stats>>
          ELSE \E c \in Syncers :
                  /\ sync_pc[c] = "idle" /\ sync_pc'[c] = "fetching"
                  /\ \/ sync_job'[c].force
                     \/ last_sync_time[sync_job'[c].series] = None
                     \/ utcnow - Val(last_sync_time[sync_job'[c].series])
                            >= SYNC_THROTTLE_SECONDS
                  /\ last_sync_time'[sync_job'[c].series] = {utcnow}]_vars

C17_Witness ==
    /\ sync_result.status = "throttled"
    /\ \E c \in Syncers :
          /\ sync_pc[c] = "fetching"
          /\ sync_job[c].force
          /\ sync_job[c].series = sync_result.series
          /\ Val(last_sync_time[sync_result.series]) = utcnow
    /\ \E s \in Series : s # sync_result.series /\ last_sync_time[s] = None

\* C18: a shutdown signal that arrives while a tick is in flight lets the tick
\* finish all of its sync and detection work before the process halts: when the
\* worker has exited no task of the tick is cancelled or left unfinished.
C18_ShutdownLetsTickFinish ==
    worker = "exited" =>
        /\ phase = "idle"
        /\ \A x \in DOMAIN steady_tasks : steady_tasks[x] \in {"ok", "error"}
        /\ \A s \in DOMAIN init_tasks : init_tasks[s].pos = Len(all_intervals)
        /\ \A s \in DOMAIN monitor_tasks : monitor_tasks[s] = "error"

\* C19: an exception raised by a statement of the tick itself is caught in the
\* job and never reaches the scheduler, and the tick after starts from a fresh
\* statistics batch: while a tick runs, the open batch counts exactly the syncs
\* that this tick has finished, whatever an aborted tick left behind.
FinishedSyncs(ended) ==
    Cardinality({x \in DOMAIN steady_tasks :
                    steady_tasks[x] # "running" /\ SyncOutcome(x[1], x[2]) = ended})
    + Cardinality({x \in (DOMAIN init_tasks) \X (DOMAIN all_intervals) :
                      x[2] <= init_tasks[x[1]].pos
                      /\ SyncOutcome(x[1], all_intervals[x[2]]) = ended})

C19_AbortedTickLeavesNoTrace ==
    /\ phase \in {"idle", "steady", "init", "detect"}
    /\ phase \in {"steady", "init"} =>
          /\ stats.open
          /\ stats.success_count = FinishedSyncs("ok")
          /\ stats.failed_count = FinishedSyncs("fail")
    /\ (phase = "detect" \/ (phase = "idle" /\ summary # NoSummary)) =>
          /\ summary.success_count = FinishedSyncs("ok")
          /\ summary.failed_count = FinishedSyncs("fail")

C19_Witness ==
    /\ phase = "init"
    /\ tick_no > summaries + 1
    /\ stats.success_count > 0
    /\ stats.failed_count > 0
    /\ \E s \in DOMAIN init_tasks : init_tasks[s].pos = Len(all_intervals)

\* C20: unsynced active symbols drain first-in-first-out, so that under repeated
\* ticks every one of them is selected after finitely many ticks, also behind
\* symbols whose backfill keeps failing.  The exchange fails the same symbols at
\* every tick and the batch is a function of the unsynced list, so the claim
\* rules out a tick that ends with the unsynced list as it found it while
\* symbols wait behind its batch: every later tick would select the same batch.
C20_UnsyncedDrainWithoutStarvation ==
    (phase = "idle" /\ tick # NoTick /\ tick.unsynced_symbols \ tick.to_initialize # {}) =>
        UnsyncedSymbols # tick.unsynced_symbols

\* C21: initial_synced becomes true only for a symbol whose seven interval syncs
\* of the tick all ended without an exception; a failing interval does not stop
\* the remaining ones (the marking waits until every backfill has gone through
\* all seven), the symbol that failed stays unsynced and is in the batch of the
\* next tick; and a flag that is true is never cleared.
C21_FlagOnlyAfterFullBackfill ==
    [][/\ initial_synced \subseteq initial_synced'
       /\ \A s \in initial_synced' \ initial_synced :
            /\ s \in tick.to_initialize
            /\ s \in DOMAIN init_tasks /\ init_tasks[s].pos = Len(all_intervals)
            /\ \A i \in DOMAIN all_intervals : SyncOutcome(s, all_intervals[i]) # "fail"
       /\ (phase = "init" /\ phase' # "init") =>
            \A s \in DOMAIN init_tasks :
                /\ init_tasks[s].pos = Len(all_intervals)
                /\ (\E i \in DOMAIN all_intervals : SyncOutcome(s, all_intervals[i]) = "fail")
                      => s \notin initial_synced'
       /\ (phase = "idle" /\ tick_no' = tick_no + 1) =>
            \A s \in DOMAIN init_tasks :
                (s \in active /\ ~init_tasks[s].success) => s \in tick'.to_initialize
      ]_vars

\* a second tick has selected again a symbol of which one interval failed in the
\* first tick, while another symbol of that batch was marked
C21_Witness ==
    /\ tick_no = 2
    /\ phase = "init"
    /\ \E s \in tick.to_initialize :
          /\ s \notin exchange.down
          /\ \E i \in FaultIntervals : <<s, i>> \in exchange.failing
          /\ init_tasks[s].pos = Len(all_intervals)
          /\ ~init_tasks[s].success
          /\ \E t \in tick.synced_symbols : t > s
\* C22: when a tick's batch is finished, success_count + failed_count of its
\* summary is the number of sync_klines calls the tick dispatched: one per
\* (symbol, interval) of the steady syncs and seven per symbol of the batch of
\* initial syncs, whatever their outcome, a sync without candles included.
C22_SummaryCountsEveryDispatchedSync ==
    summary # NoSummary =>
        summary.success_count + summary.failed_count
            = Cardinality(DOMAIN steady_tasks)
              + Len(all_intervals) * Cardinality(DOMAIN init_tasks)

\* C23: a sync_klines call that finds the latest stored candle more than
\* INCREMENTAL_SYNC_LIMIT periods behind, of any size, and succeeds leaves the
\* store with every candle from the previously latest one up to the candle that
\* was current when the call was made: no open_time in between is missing.
C23_LargeGapIsClosed ==
    [][\A c \in Syncers :
          (/\ sync_pc[c] = "fetching" /\ sync_pc'[c] = "idle"
           /\ sync_result'.status = "ok"
           /\ Truthy(sync_job[c].start_ts))
          => LET j == sync_job[c]
                 step == IntervalSeconds(j.series[2])
                 latest == SetMax(OpenTimes(j.seen))
             IN  \A i \in (latest \div step)..(j.now \div step) :
                    i * step \in OpenTimes(SeriesRows(store', j.series))
      ]_vars

\* C24: a volume or rise detection is suppressed exactly when the time since
\* the last accepted one of its (symbol, type) is less than the configured
\* reminder interval: one that comes exactly the interval after it is accepted,
\* an interval of 0 suppresses nothing, and an accepted detection sets
\* last-fired to its own time.
C24_SuppressedExactlyInsideInterval ==
    LET r == last_reminder
        interval == IF r.det.alert_type = 1 THEN config.interval_1 ELSE config.interval_2
    IN  (r.result # "none" /\ r.det.alert_type \in {1, 2}) =>
            /\ r.result = "suppressed" <=>
                  (r.had_prior /\ r.elapsed * TenthsPerMinute < interval * SecondsPerMinute)
            /\ r.result # "suppressed" => r.last_fired = r.at

\* C25: a detection that either dedup policy suppresses changes nothing: the
\* Alert table and the dedup table stay as they are (last-fired is not
\* refreshed) and nothing is handed to the notifier; and an accepted detection
\* leaves the dedup rows of every other (symbol, type) as they are, the rows it
\* adds or changes being those of its own (symbol, type).
C25_SuppressedChangesNothing ==
    [][reminders_left' < reminders_left =>
          LET r == last_reminder'
              Other(d) == d.symbol # r.symbol \/ d.alert_type # r.det.alert_type
          IN  IF r.result = "suppressed"
              THEN alerts' = alerts /\ dedups' = dedups /\ r.added = 0 /\ r.posts = 0
              ELSE {d \in dedups : Other(d)} = {d \in dedups' : Other(d)}
      ]_vars

\* a volume detection and a pattern detection of one symbol were accepted, a
\* later detection of that symbol was suppressed and left both rows as old as
\* they were
C25_Witness ==
    /\ last_reminder.result = "suppressed"
    /\ last_reminder.at > 0
    /\ \E d, e \in dedups :
          /\ d.symbol = last_reminder.symbol /\ e.symbol = last_reminder.symbol
          /\ d.alert_type \in {1, 2} /\ e.alert_type = 3
          /\ d.last_alert_time < e.last_alert_time
          /\ e.last_alert_time < last_reminder.at

\* C26: within a tick the phases run in the order intervals, steady syncs,
\* initial syncs, detection: no initial sync starts before every steady sync of
\* the tick has finished, initial_synced is written only when every initial
\* sync of the tick has gone through its intervals, and detection starts only
\* after both and after the summary of the batch.
C26_PhasesInOrder ==
    [][/\ phase' = "steady" =>
            /\ tick'.intervals # <<>>
            /\ init_tasks' = NoInitTasks /\ monitor_tasks' = NoTasks /\ summary' = NoSummary
       /\ phase' = "init" =>
            /\ (\A x \in DOMAIN steady_tasks' : steady_tasks'[x] # "running")
            /\ monitor_tasks' = NoTasks /\ summary' = NoSummary
       /\ initial_synced' # initial_synced =>
            /\ phase = "init"
            /\ (\A x \in DOMAIN steady_tasks : steady_tasks[x] # "running")
            /\ \A s \in DOMAIN init_tasks : init_tasks[s].pos = Len(all_intervals)
       /\ phase' = "detect" =>
            /\ (\A x \in DOMAIN steady_tasks' : steady_tasks'[x] # "running")
            /\ \A s \in DOMAIN init_tasks' : init_tasks'[s].pos = Len(all_intervals)
            /\ initial_synced' = tick'.synced_symbols
                    \cup {s \in DOMAIN init_tasks' : init_tasks'[s].success}
            /\ summary' # NoSummary
       /\ (phase = "detect" /\ phase' # "detect") => phase' = "idle"
       /\ (phase = "init" /\ phase' # "init") => phase' \in {"detect", "idle"}
       /\ (phase = "steady" /\ phase' # "steady") => phase' \in {"init", "detect", "idle"}
      ]_vars

\* detection is running in a tick that had steady syncs in two intervals and a
\* batch of initial syncs, one of them failed
C26_Witness ==
    /\ phase = "detect"
    /\ Len(tick.intervals) = 2
    /\ \E x \in DOMAIN steady_tasks : steady_tasks[x] = "error"
    /\ \E s \in DOMAIN init_tasks : init_tasks[s].success
    /\ \E s \in DOMAIN monitor_tasks : monitor_tasks[s] # "running"

\* C27: a pause requested while a tick is in its sync phase cancels none of its
\* work: the tick runs its remaining syncs and then its detection, so a tick
\* whose batch had a steady cohort and a successful sync does not end without
\* having dispatched detection; the pause only keeps later ticks from starting.
C27_PauseLetsTickFinish ==
    [][/\ (phase \in {"steady", "init"} /\ phase' = "idle") =>
            ~(tick.synced_symbols # {} /\ summary'.success_count > 0)
       /\ (phase = "idle" /\ phase' # "idle") => scheduler_running
       /\ \A x \in DOMAIN steady_tasks : x \in DOMAIN steady_tasks' =>
            steady_tasks'[x] # "cancelled"
      ]_vars

\* C28: the rate-limiter lock is held only around the check and the increment
\* of the counter: whoever holds it is inside _check_rate_limit (about to run
\* its body or asleep until a slot is free), never in the delay, the outbound
\* call or a backoff; and while one caller waits for a slot with the lock, the
\* outbound call another caller has in flight can still return.
C28_LockOnlyAroundCounter ==
    /\ lock_holder # NoCaller => pc[lock_holder] \in {"lockwait", "rate_sleep"}
    /\ \A c \in Callers : pc[c] \in {"delay", "calling", "backoff"} =>
          lock_holder # c /\ \A k \in DOMAIN lock_waiters : lock_waiters[k] # c
    /\ \A c \in Callers : pc[c] = "calling" => ENABLED ApiReturns(c)

\* one caller sleeps to the next minute holding the lock while the other
\* caller's outbound call is in flight
C28_Witness ==
    \E c, d \in Callers :
        /\ lock_holder = c /\ pc[c] = "rate_sleep" /\ sleep_left[c] > 0
        /\ pc[d] = "calling"

\* C29: at every trigger time the intervals to sync are 1m always, 15m iff
\* minute % 15 = 0, 30m iff the minute is 1 or 31, 1h iff it is 2, 4h iff it is
\* 3 and hour % 4 = 0, 1d iff it is 00:04 and 3d iff it is 00:05; so at most one
\* interval coarser than 1m is due at a tick, and every supported interval is
\* due at some minute of the day.
C29_IntervalsDue ==
    LET at == trigger - 1
        minute == at % MinutesPerHour
        hour == (at \div MinutesPerHour) % HoursPerDay
        due == Range(tick.intervals)
    IN  /\ tick # NoTick =>
              /\ "1m" \in due
              /\ "15m" \in due <=> minute % 15 = 0
              /\ "30m" \in due <=> minute \in {1, 31}
              /\ "1h" \in due <=> minute = 2
              /\ "4h" \in due <=> (minute = 3 /\ hour % 4 = 0)
              /\ "1d" \in due <=> (minute = 4 /\ hour = 0)
              /\ "3d" \in due <=> (minute = 5 /\ hour = 0)
              /\ due \subseteq Range(all_intervals)
              /\ Cardinality(due) = Len(tick.intervals)
              /\ Cardinality(due \ {"1m"}) <= 1
              /\ phase = "steady" => DOMAIN steady_tasks = tick.synced_symbols \X due
        /\ \A i \in Range(all_intervals) :
              \E t \in 0..(HoursPerDay * MinutesPerHour - 1) :
                  i \in Range(GetIntervalsToSync(t))

\* the tick of 08:03 syncs the initialized symbol in 1m and 4h
C29_Witness ==
    /\ phase = "steady"
    /\ tick.intervals = <<"1m", "4h">>
    /\ trigger - 1 = 8 * MinutesPerHour + 3
    /\ \A x \in DOMAIN steady_tasks : steady_tasks[x] = "ok"

\* C30: each of price_error, middle_kline_cnt and fake_kline_cnt that the
\* pattern check uses for (symbol, timeframe) is the value of the symbol_configs
\* row of that symbol and timeframe when the row exists and the field is not
\* null, and the global value otherwise: a null field, a row of another
\* timeframe or of another symbol, or a deleted row leave the global value, for
\* that field only.
C30_OverrideElseGlobal ==
    [][LET r == last_check'
           rows == {c \in symbol_configs : c.symbol = r.symbol /\ c.interval = Timeframe}
           Set(f) == {c[f] : c \in rows} \ {None}
           Effective(f) == IF Set(f) = {} THEN thresholds[f]
                           ELSE Val(CHOOSE o \in Set(f) : TRUE)
       IN  (r # last_check /\ r.kind = "pattern") =>
               /\ Cardinality(rows) <= 1
               /\ r.used.price_error = Effective("price_error")
               /\ r.used.middle_kline_cnt = Effective("middle_kline_cnt")
               /\ r.used.fake_kline_cnt = Effective("fake_kline_cnt")
      ]_vars

\* a check that used an overridden price_error of 0 with the global
\* middle_kline_cnt, the row's other fields being null, while the symbol's row
\* of another timeframe sets all three
C30_Witness ==
    /\ last_check.kind = "pattern"
    /\ last_check.symbol = "BTCUSDT"
    /\ last_check.used = [price_error |-> 0,
                          middle_kline_cnt |-> thresholds.middle_kline_cnt,
                          fake_kline_cnt |-> thresholds.fake_kline_cnt]
    /\ \E c \in symbol_configs : c.symbol = "BTCUSDT" /\ c.interval # Timeframe
    /\ \E c \in symbol_configs : c.symbol = "ETHUSDT" /\ c.middle_kline_cnt # None

C32_MiddleCountIsPeriodsSpanned ==
    [][LET r == last_check'
       IN  (r # last_check /\ r.kind = "pattern" /\ r.matched > 0) =>
               r.middle_count * INTERVAL_TO_MINUTES(Timeframe)
                   = bullish_times[1] - bullish_times[r.matched + 1]
      ]_vars

\* E is the second bullish candle before D and opened four periods before it,
\* with one fake candle between them: 4 is reported
C32_Witness ==
    /\ last_check.kind = "pattern"
    /\ last_check.matched = 2
    /\ last_check.fakes = 1
    /\ bullish_times[1] - bullish_times[3] = 4 * INTERVAL_TO_MINUTES(Timeframe)
    /\ last_check.middle_count = 4

\* C33: a sync_klines call that ends with an exception, raised by a page request
\* or by a statement of the write, leaves the whole kline store as it was: none
\* of the candles it fetched is stored, and no row of another series changes.
C33_FailedSyncPersistsNothing ==
    [][\A c \in Syncers :
          (/\ sync_pc[c] = "fetching"
           /\ sync_pc'[c] = "idle"
           /\ sync_result'.status = "failed") => store' = store
      ]_vars

\* the write of a call that fetched candles failed while the series already
\* had rows, and the series has the rows it had
C33_Witness ==
    /\ sync_result.status = "failed"
    /\ sync_result.error = "db"
    /\ sync_result.fetched >= 2
    /\ sync_result.rows_before > 0
    /\ sync_result.rows_after = sync_result.rows_before

\* C34: check coroutines that reach reminder together for one (symbol, type)
\* cannot both pass the dedup gate: for types 1 and 2 no two Alerts of a
\* (symbol, type) are created within one reminder interval and the (symbol, type)
\* has at most one dedup row; for type 3 no two Alerts have the same key while
\* the dedup is enabled.
C34_NoDoubleFire ==
    /\ \A a1, a2 \in alerts :
          (/\ a1 # a2 /\ a1.symbol = a2.symbol /\ a1.alert_type = a2.alert_type
           /\ a1.alert_type \in {1, 2}
           /\ IntervalMinutes(a1.alert_type) > 0
           /\ a1.created_at >= a2.created_at)
              => a1.created_at - a2.created_at
                     > IntervalMinutes(a1.alert_type) * SecondsPerMinute
    /\ \A d1, d2 \in dedups :
          (d1.symbol = d2.symbol /\ d1.alert_type = d2.alert_type /\ d1.alert_type \in {1, 2})
              => d1 = d2
    /\ dedup_always_on =>
          \A a1, a2 \in alerts :
              (a1.symbol = a2.symbol /\ a1.alert_type = 3 /\ a2.alert_type = 3
               /\ a1.data = a2.data) => a1 = a2

\* two coroutines had both detected the same (symbol, type) before either
\* called reminder; one fired and the other was suppressed
C34_Witness ==
    \E d1, d2 \in Detectors :
        /\ reminding[d1].result = "fired"
        /\ reminding[d2].result = "suppressed"
        /\ reminding[d2].raced
        /\ reminding[d1].symbol = reminding[d2].symbol
        /\ reminding[d1].det = reminding[d2].det
        /\ reminding[d1].det.alert_type = 1
        /\ IntervalMinutes(1) > 0

\* C35: the requests issued to the exchange within one wall-clock minute never
\* exceed the hard cap of 1200, whatever the number of concurrent callers.
C35_IssuedWithinHardCap == crowd.issued_count <= HardCap

\* C36: after a successful sync_klines of a series that has rows, whatever the
\* gap, the candle that was the latest stored one before the call has been
\* fetched again: if it had closed when the call was made, the store holds its
\* final values.  Stated for the calls that find more than
\* INCREMENTAL_SYNC_LIMIT periods missing.
C36_FormingCandleIsOverwritten ==
    [][\A c \in Syncers :
          (/\ sync_pc[c] = "fetching" /\ sync_pc'[c] = "idle"
           /\ sync_result'.status = "ok"
           /\ Truthy(sync_job[c].start_ts))
          => LET j == sync_job[c]
                 step == IntervalSeconds(j.series[2])
                 latest == SetMax(OpenTimes(j.seen))
             IN  \A r \in SeriesRows(store', j.series) :
                    (r.open_time = latest /\ latest + step <= j.now)
                        => r.ohlcv = "closed"
      ]_vars

\* C37: whenever the orchestrator marks a symbol initial_synced, the kline store
\* holds at least one candle of that symbol for each of the seven intervals.
C37_MarkedSymbolHasEveryInterval ==
    [][\A s \in initial_synced' \ initial_synced :
          \A i \in Range(all_intervals) : <<s, i>> \in kline_pairs']_vars

\* C38: when the first qualifying pair (D, E) of a pattern check is suppressed by
\* the permanent-key dedup, the scan ends there: that pair is the one reported and
\* the run adds no Alert, even if a farther E qualifies with a key that never
\* fired; a run adds at most one Alert.
C38_ScanEndsAtSuppressedPair ==
    [][\A symbol \in AlertSymbols :
          (/\ last_check'.kind = "pattern" /\ last_check'.symbol = symbol
           /\ reminders_left' < reminders_left)
          => LET used == last_check'.used
                 qualifying == {i \in 1..(Len(bullish) - 1) : Qualifies(bullish, i, used)}
                 first == CHOOSE i \in qualifying : \A j \in qualifying : i <= j
             IN  /\ Cardinality(alerts') <= Cardinality(alerts) + 1
                 /\ qualifying # {}
                 /\ last_check'.matched = first
                 /\ CheckDedupType3(symbol, MatchKeys[first]) => alerts' = alerts]_vars

C38_Witness ==
    /\ last_check.kind = "pattern"
    /\ last_check.matched > 0
    /\ last_reminder.result = "suppressed"
    /\ last_reminder.symbol = last_check.symbol
    /\ last_reminder.det.dedup_key = MatchKeys[last_check.matched]
    /\ \E j \in (last_check.matched + 1)..(Len(bullish) - 1) :
          /\ Qualifies(bullish, j, last_check.used)
          /\ ~\E d \in dedups : d.symbol = last_check.symbol /\ d.dedup_key = MatchKeys[j]
    /\ AlertsOf(alerts, last_check.symbol, last_reminder.det) # {}
    /\ Cardinality({a \in alerts : a.symbol = last_check.symbol}) = 1

\* C39: every call of _check_rate_limit eventually returns, whatever the number
\* of concurrent callers: a sleeping caller wakes in the minute after the one it
\* went to sleep in, the callers blocked on the lock while another sleeps are
\* all admitted, and the fetch loop of sync_klines ends, each page either ending
\* the loop or strictly decreasing the remaining count, which stays positive.
C39_EveryCallReturns ==
    /\ \A c \in Callers : (pc[c] \in {"lockwait", "rate_sleep"}) ~> (pc[c] = "idle")
    /\ [](\A c \in Callers :
             (pc[c] = "rate_sleep" /\ sleep_left[c] > 0)
             => AbsMinute(clock + sleep_left[c]) = sleep_from + 1)
    /\ \A c \in Syncers : (sync_pc[c] = "fetching") ~> (sync_pc[c] = "idle")
    /\ [][\A c \in Syncers :
             (sync_pc[c] = "fetching" /\ sync_pc'[c] = "fetching"
              /\ sync_job'[c] # sync_job[c])
             => /\ sync_job'[c].remaining < sync_job[c].remaining
                /\ sync_job'[c].remaining > 0]_vars

C39_Witness ==
    /\ \A c \in Callers : pc[c] = "idle"
    /\ last_acq.queued
    /\ last_acq.minute > 0
    /\ request_count = 2
    /\ \A c \in Syncers : sync_pc[c] = "idle"
    /\ sync_result.status = "ok"
    /\ sync_result.fetched > PageLimit

\* C9: a call whose every attempt fails with a retryable error makes exactly
\* API_MAX_RETRIES attempts, sleeps the doubling backoff delays, and then fails;
\* no call makes more than API_MAX_RETRIES attempts; a success returns at once
\* (no attempt and no backoff after it).
C9_RetryCeilingAndBackoff ==
    \A c \in Callers :
        /\ api_calls[c] <= API_MAX_RETRIES
        /\ backoffs[c] = DoublingDelays(Len(backoffs[c]))
        /\ outcome[c] = "exhausted" =>
              /\ api_calls[c] = API_MAX_RETRIES
              /\ Len(backoffs[c]) = API_MAX_RETRIES
              /\ pc[c] = "idle"
        /\ outcome[c] = "returned" =>
              /\ pc[c] = "idle"
              /\ api_calls[c] = Len(backoffs[c]) + 1

\* a call that was retried to the ceiling and failed, beside one that succeeded
\* on a retry
C9_Witness ==
    \E c, d \in Callers :
        /\ outcome[c] = "exhausted"
        /\ backoffs[c] = <<5, 10, 20, 40, 80>>
        /\ outcome[d] = "returned"
        /\ api_calls[d] > 1

\* C10: once an attempt has failed with a non-retryable error the call is over:
\* the error is raised at once, the failed attempt was the last one, no backoff
\* was slept for it and no further counter increment made, on whichever attempt
\* it occurred.
C10_NonRetryablePropagatesAtOnce ==
    \A c \in Callers :
        (last_error[c] # NoError /\ ~IsRetryable(last_error[c])) =>
            /\ pc[c] = "idle"
            /\ outcome[c] = "raised"
            /\ api_calls[c] = attempt[c] + 1
            /\ acquires[c] = attempt[c] + 1
            /\ Len(backoffs[c]) = attempt[c]

\* a non-retryable error on the first attempt, and one on a later attempt
C10_Witness ==
    \E c, d \in Callers :
        /\ outcome[c] = "raised" /\ attempt[c] = 0
        /\ outcome[d] = "raised" /\ attempt[d] > 0

====
